---- MODULE Spec2Model ----
(***************************************************************************)
(* Configuration resolution and resource-name generation of the CDK        *)
(* application template: ConfigurationResolver (configuration-resolver),   *)
(* the simplified resolveConfiguration (lib/utils/simple-config-resolver)  *)
(* and ResourceNameGenerator (config/resource-name-generator).             *)
(*                                                                         *)
(* A JavaScript string is a sequence of one-character strings, so that     *)
(* concatenation, case folding, regular expressions and charCodeAt are     *)
(* computed character by character, as the code computes them.             *)
(***************************************************************************)
EXTENDS Integers, Sequences, FiniteSets, TLC

VARIABLES
    defaultConfig,        \* ConfigurationResolver.defaultConfig; DEFAULT_APPLICATION_CONFIG
                          \* of the simplified resolver
    environmentConfigs,   \* ConfigurationResolver.environmentConfigs (Map: stage -> entry)
    resolved,             \* outcome of the last ConfigurationResolver.resolveConfiguration call
    flat,                 \* outcome of the last validateConfiguration call
    detailed,             \* outcome of the last validateConfigurationDetailed call
    ENVIRONMENT_CONFIGS,  \* the table getEnvironmentConfig reads (simplified resolver)
    simple,               \* outcome of the last simplified resolveConfiguration call
    genConfig,            \* ResourceNameGenerator.config
    existingNames,        \* ResourceNameGenerator.existingNames
    generated,            \* outcome of the last ResourceNameGenerator.generateResourceNames call
    calls,                \* number of generateResourceNames calls made on the generator
    uniqueName,           \* the generateUniqueName call in progress, or the last one made
    hashed,               \* one hash-suffixed candidate built earlier in the process, with
                          \* the base name, the attempt and the configuration it was built for
    previous,             \* outcome of the generateResourceNames call before the last
    helper                \* a call of a private helper of the generator (normalizeEcrName,
                          \* applyNaming): its arguments and the string it has in hand

resolverVars == <<defaultConfig, environmentConfigs, resolved, flat, detailed>>
simpleVars == <<ENVIRONMENT_CONFIGS, simple>>
generatorVars == <<genConfig, existingNames, generated, calls>>
vars == <<defaultConfig, environmentConfigs, resolved, flat, detailed,
          ENVIRONMENT_CONFIGS, simple, genConfig, existingNames, generated, calls,
          uniqueName, hashed, previous, helper>>

(***************************************************************************)
(* Characters                                                              *)
(***************************************************************************)
LowerSeq == <<"a","b","c","d","e","f","g","h","i","j","k","l","m",
              "n","o","p","q","r","s","t","u","v","w","x","y","z">>
UpperSeq == <<"A","B","C","D","E","F","G","H","I","J","K","L","M",
              "N","O","P","Q","R","S","T","U","V","W","X","Y","Z">>
DigitSeq == <<"0","1","2","3","4","5","6","7","8","9">>

Range(s) == {s[i] : i \in DOMAIN s}

LowerChars == Range(LowerSeq)
UpperChars == Range(UpperSeq)
DigitChars == Range(DigitSeq)

IndexIn(c, s) == CHOOSE i \in DOMAIN s : s[i] = c

\* String.prototype.toLowerCase, one character
toLowerCaseChar(c) == IF c \in UpperChars THEN LowerSeq[IndexIn(c, UpperSeq)] ELSE c

\* String.prototype.toLowerCase
toLowerCase(s) == [i \in DOMAIN s |-> toLowerCaseChar(s[i])]

\* String.prototype.charCodeAt for the characters of the model (ASCII)
charCode(c) ==
    IF c \in DigitChars THEN 47 + IndexIn(c, DigitSeq)
    ELSE IF c \in UpperChars THEN 64 + IndexIn(c, UpperSeq)
    ELSE IF c \in LowerChars THEN 96 + IndexIn(c, LowerSeq)
    ELSE IF c = " " THEN 32
    ELSE IF c = "#" THEN 35
    ELSE IF c = "-" THEN 45
    ELSE IF c = "." THEN 46
    ELSE IF c = "/" THEN 47
    ELSE IF c = "@" THEN 64
    ELSE 95  \* "_"

\* String.prototype.startsWith
startsWith(s, p) == Len(s) >= Len(p) /\ SubSeq(s, 1, Len(p)) = p

\* String.prototype.includes
includes(s, p) == \E i \in 1..(Len(s) - Len(p) + 1) : SubSeq(s, i, i + Len(p) - 1) = p

\* String.prototype.trim of a string whose only white space is " "
RECURSIVE trimStart(_)
trimStart(s) == IF s # <<>> /\ Head(s) = " " THEN trimStart(Tail(s)) ELSE s
RECURSIVE trimEnd(_)
trimEnd(s) == IF s # <<>> /\ s[Len(s)] = " " THEN trimEnd(SubSeq(s, 1, Len(s) - 1)) ELSE s
trim(s) == trimEnd(trimStart(s))

\* Number.prototype.toString(10) of a non-negative integer (template literal `${n}`)
RECURSIVE decimal(_)
decimal(n) == IF n < 10 THEN <<DigitSeq[n + 1]>> ELSE decimal(n \div 10) \o <<DigitSeq[(n % 10) + 1]>>

\* template literal `${n}` of an integer
numberToString(n) == IF n < 0 THEN <<"-">> \o decimal(0 - n) ELSE decimal(n)

\* 'x'.repeat(n)
repeat(c, n) == [i \in 1..n |-> c]

(***************************************************************************)
(* AWS_NAMING_RULES (resource-name-generator.ts)                           *)
(***************************************************************************)
AlnumChars == LowerChars \cup UpperChars \cup DigitChars
LowerAlnumChars == LowerChars \cup DigitChars
SpecialChars == {".", "_", "-"}

\* /^[a-zA-Z0-9][a-zA-Z0-9-]*[a-zA-Z0-9]$/
GENERAL_PATTERN(s) ==
    /\ Len(s) >= 2
    /\ s[1] \in AlnumChars
    /\ s[Len(s)] \in AlnumChars
    /\ \A i \in DOMAIN s : s[i] \in AlnumChars \cup {"-"}

\* /^[a-z0-9]+(?:[._-][a-z0-9]+)*(?:\/[a-z0-9]+(?:[._-][a-z0-9]+)*)*$/
ECR_PATTERN(s) ==
    /\ Len(s) >= 1
    /\ \A i \in DOMAIN s : s[i] \in LowerAlnumChars \cup SpecialChars \cup {"/"}
    /\ s[1] \in LowerAlnumChars
    /\ s[Len(s)] \in LowerAlnumChars
    /\ \A i \in 1..(Len(s) - 1) : s[i] \in LowerAlnumChars \/ s[i + 1] \in LowerAlnumChars

\* /^[a-zA-Z0-9._/-]+$/
LOG_GROUP_PATTERN(s) ==
    /\ Len(s) >= 1
    /\ \A i \in DOMAIN s : s[i] \in AlnumChars \cup SpecialChars \cup {"/"}

\* AWS_NAMING_RULES.LENGTH_LIMITS[resourceType]
LENGTH_LIMITS(resourceType) ==
    CASE resourceType = "ecrRepositoryName" -> 256
      [] resourceType = "clusterName" -> 255
      [] resourceType = "serviceName" -> 255
      [] resourceType = "taskDefinitionFamily" -> 255
      [] resourceType = "albName" -> 32
      [] resourceType = "targetGroupName" -> 32
      [] resourceType = "logGroupName" -> 512
      [] resourceType = "securityGroupName" -> 255

RESERVED_PREFIXES == << <<"a","w","s">>, <<"a","m","a","z","o","n">>,
                        <<"e","c","s">>, <<"e","c","2">> >>

\* a prefix test that compares the characters as they are
hasReservedPrefixExact(name) ==
    \E i \in DOMAIN RESERVED_PREFIXES : startsWith(name, RESERVED_PREFIXES[i])

\* RESERVED_PREFIXES.some(prefix => name.toLowerCase().startsWith(prefix.toLowerCase()))
hasReservedPrefix(name) ==
    \E i \in DOMAIN RESERVED_PREFIXES :
        startsWith(toLowerCase(name), toLowerCase(RESERVED_PREFIXES[i]))

(***************************************************************************)
(* ResourceNameGenerator: pure helpers                                     *)
(***************************************************************************)
\* isValidResourceName(name, resourceType)
isValidResourceName(name, resourceType) ==
    IF name = <<>> THEN FALSE
    ELSE IF Len(name) > LENGTH_LIMITS(resourceType) THEN FALSE
    ELSE CASE resourceType = "ecrRepositoryName" -> ECR_PATTERN(name)
           [] resourceType = "logGroupName" -> LOG_GROUP_PATTERN(name)
           [] OTHER -> GENERAL_PATTERN(name)

\* .replace(/[^a-z0-9._/-]/g, '-')
replaceInvalidChars(s) ==
    [i \in DOMAIN s |->
        IF s[i] \in LowerAlnumChars \cup SpecialChars \cup {"/"} THEN s[i] ELSE "-"]

\* .replace(/^[._-]+|[._-]+$/g, '')
RECURSIVE stripLeading(_)
stripLeading(s) == IF s # <<>> /\ Head(s) \in SpecialChars THEN stripLeading(Tail(s)) ELSE s
RECURSIVE stripTrailing(_)
stripTrailing(s) ==
    IF s # <<>> /\ s[Len(s)] \in SpecialChars
    THEN stripTrailing(SubSeq(s, 1, Len(s) - 1)) ELSE s

\* length of the run of special characters s starts with
RECURSIVE specialRun(_)
specialRun(s) == IF s # <<>> /\ Head(s) \in SpecialChars THEN 1 + specialRun(Tail(s)) ELSE 0

\* .replace(/[._-]{2,}/g, '-')
RECURSIVE collapseSpecialRuns(_)
collapseSpecialRuns(s) ==
    IF s = <<>> THEN <<>>
    ELSE LET k == specialRun(s) IN
         IF k >= 2 THEN <<"-">> \o collapseSpecialRuns(SubSeq(s, k + 1, Len(s)))
         ELSE <<Head(s)>> \o collapseSpecialRuns(Tail(s))

\* a normalization that strips one special character at either end
normalizeEcrNameStrippingOne(name) ==
    LET replaced == replaceInvalidChars(toLowerCase(name))
        headless == IF replaced # <<>> /\ Head(replaced) \in SpecialChars
                    THEN Tail(replaced) ELSE replaced
        stripped == IF headless # <<>> /\ headless[Len(headless)] \in SpecialChars
                    THEN SubSeq(headless, 1, Len(headless) - 1) ELSE headless
    IN collapseSpecialRuns(stripped)

\* normalizeEcrName(name)
normalizeEcrName(name) ==
    collapseSpecialRuns(stripTrailing(stripLeading(replaceInvalidChars(toLowerCase(name)))))

\* 32-bit integers are kept as two 16-bit halves <<hi, lo>> (the unsigned value is
\* hi * 65536 + lo), so that no intermediate value leaves the 32-bit range.
Half == 256 * 256

\* hash = ((hash << 5) - hash) + char; hash = hash & hash   (hash * 31 + char, wrapped)
hashStep(h, code) ==
    LET lo == h[2] * 31 + code
        hi == h[1] * 31 + (lo \div Half)
    IN <<hi % Half, lo % Half>>

\* the for loop over input from index i on, entered with hash = h
RECURSIVE hashFold(_, _, _)
hashFold(h, s, i) ==
    IF i > Len(s) THEN h
    ELSE LET next == hashStep(h, charCode(s[i]))
         IN IF next[1] < Half THEN hashFold(next, s, i + 1) ELSE h

\* Math.abs of the signed 32-bit value of h
absInt32(h) ==
    IF h[1] < Half \div 2 THEN h
    ELSE IF h[2] = 0 THEN <<Half - h[1], 0>>
    ELSE <<Half - 1 - h[1], Half - h[2]>>

\* Number.prototype.toString(36) of a non-negative 32-bit value
RECURSIVE toString36(_)
toString36(h) ==
    LET qhi == h[1] \div 36
        t == (h[1] % 36) * Half + h[2]
        qlo == t \div 36
        r == t % 36
        digit == (DigitSeq \o LowerSeq)[r + 1]
    IN IF qhi = 0 /\ qlo = 0 THEN <<digit>> ELSE toString36(<<qhi, qlo>>) \o <<digit>>

\* String.prototype.substring(0, n)
substring0(s, n) == SubSeq(s, 1, IF Len(s) < n THEN Len(s) ELSE n)

\* generateShortHash(input)
generateShortHash(input) ==
    substring0(toString36(absInt32(hashFold(<<0, 0>>, input, 1))), 6)


(***************************************************************************)
(* String literals of the source, tests and specification scenarios        *)
(***************************************************************************)
EmptyString == <<>>
svc == <<"s","v","c">>
svcService == <<"s","v","c","-","s","e","r","v","i","c","e">>
blank == <<" "," ">>
hyphen == <<"-">>
beta == <<"b","e","t","a">>
prod == <<"p","r","o","d">>

\* a value JavaScript leaves out: an absent optional parameter or Map.get miss
undefined == [undefined |-> TRUE]

\* a number: an integer, a non-integer (v + 0.5) or undefined
int(n) == [k |-> "int", v |-> n]

\* a docker build argument value with its typeof
str(t) == [typeof |-> "string", v |-> t]

\* object spread { ...a, ...b }
spread(a, b) == [f \in DOMAIN a \cup DOMAIN b |-> IF f \in DOMAIN b THEN b[f] ELSE a[f]]

\* an optional property is present
has(obj, f) == f \in DOMAIN obj

(***************************************************************************)
(* ConfigurationResolver (configuration-resolver): name generation          *)
(***************************************************************************)
\* a default that puts the stage in front instead of behind
stagePrefixConvention ==
    [useStagePrefix |-> TRUE, useStageSuffix |-> FALSE, separator |-> <<"-">>]

\* the default naming convention (no prefix, stage suffix, '-')
defaultNamingConvention ==
    [useStagePrefix |-> FALSE, useStageSuffix |-> TRUE, separator |-> hyphen]

\* the naming convention generateResourceNames(config, stage, envConfig) settles on
resolverNamingConvention(envConfig) ==
    IF has(envConfig, "namingConvention") THEN envConfig.namingConvention
    ELSE defaultNamingConvention

\* applyNaming(baseName) of ConfigurationResolver.generateResourceNames
resolverApplyNaming(baseName, stage, convention) ==
    LET prefixed == IF convention.useStagePrefix
                    THEN stage \o convention.separator \o baseName ELSE baseName
    IN IF convention.useStageSuffix
       THEN prefixed \o convention.separator \o stage ELSE prefixed

\* the base names the object literal of nine names passes to applyNaming
namedBases(config) ==
    {config.ecrRepositoryName, config.applicationName \o hyphen \o config.clusterNameSuffix,
     config.serviceName, config.taskDefinitionFamily, config.albName, config.targetGroupName,
     config.applicationName,
     config.applicationName \o <<"-","a","l","b","-","s","g">>,
     config.applicationName \o <<"-","e","c","s","-","s","g">>}

\* the object literal of nine names the resolvers and the generator build; N[baseName] is
\* applyNaming(baseName)
nineNames(config, N) ==
    [ecrRepositoryName |-> N[config.ecrRepositoryName],
     clusterName |-> N[config.applicationName \o hyphen \o config.clusterNameSuffix],
     serviceName |-> N[config.serviceName],
     taskDefinitionFamily |-> N[config.taskDefinitionFamily],
     albName |-> N[config.albName],
     targetGroupName |-> N[config.targetGroupName],
     logGroupName |-> <<"/","a","w","s","/","e","c","s","/">> \o N[config.applicationName],
     albSecurityGroupName |-> N[config.applicationName \o <<"-","a","l","b","-","s","g">>],
     ecsSecurityGroupName |-> N[config.applicationName \o <<"-","e","c","s","-","s","g">>]]

\* ConfigurationResolver.generateResourceNames(config, stage, envConfig)
resolverGenerateResourceNames(config, stage, envConfig) ==
    LET convention == resolverNamingConvention(envConfig)
        N(baseName) == resolverApplyNaming(baseName, stage, convention)
    IN nineNames(config, [baseName \in namedBases(config) |-> N(baseName)])

\* Object.values(resourceNames), in property order
NameKeys == <<"ecrRepositoryName", "clusterName", "serviceName", "taskDefinitionFamily",
              "albName", "targetGroupName", "logGroupName",
              "albSecurityGroupName", "ecsSecurityGroupName">>
\* the values without those of the log group and the security groups
nameValuesOfFirstSix(resourceNames) == [i \in 1..6 |-> resourceNames[NameKeys[i]]]

nameValues(resourceNames) == [i \in DOMAIN NameKeys |-> resourceNames[NameKeys[i]]]

\* Array.prototype.indexOf
indexOf(seq, x) == CHOOSE i \in DOMAIN seq : seq[i] = x /\ \A j \in 1..(i - 1) : seq[j] # x

\* Array.prototype.filter from index i on; keep[i] is the callback's result for seq[i]
RECURSIVE filter(_, _, _)
filter(seq, keep, i) ==
    IF i > Len(seq) THEN <<>>
    ELSE (IF keep[i] THEN <<seq[i]>> ELSE <<>>) \o filter(seq, keep, i + 1)

\* nameValues.filter((name, index) => nameValues.indexOf(name) !== index)
duplicatesOf(values) ==
    LET later(i) == indexOf(values, values[i]) # i
    IN filter(values, [i \in DOMAIN values |-> later(i)], 1)

(***************************************************************************)
(* ConfigurationResolver: validation rules, flat messages                   *)
(***************************************************************************)
requiredFields == <<"applicationName", "sourceDirectory", "ecrRepositoryName", "serviceName",
                    "taskDefinitionFamily", "albName", "targetGroupName">>
awsNameFields == <<"ecrRepositoryName", "serviceName", "taskDefinitionFamily",
                   "albName", "targetGroupName">>
\* nameLengthLimits of validateAwsNamingConventions
nameLengthLimits == << <<"ecrRepositoryName", 256>>, <<"serviceName", 255>>,
                       <<"taskDefinitionFamily", 255>>, <<"albName", 32>>,
                       <<"targetGroupName", 32>> >>

\* !value || (typeof value === 'string' && value.trim().length === 0)
missingOrEmpty(value) == value = EmptyString \/ Len(trim(value)) = 0

\* a flat error or warning string: its fixed text, the field and the value interpolated
message(text, field, value) == [text |-> text, field |-> field, value |-> value]

\* errors.push(...) for every field of a list that fails a test, in list order; fails[i]
\* is the test's result for the i-th field and entry[i] the entry pushed for it
pushEach(errors, fails, entry) == errors \o filter(entry, fails, 1)

\* validateRequiredFields(config, errors)
validateRequiredFields(config, errors) ==
    LET fails(field) == missingOrEmpty(config[field])
        entry(field) == message("Required field is missing or empty", field, EmptyString)
    IN pushEach(errors, [i \in DOMAIN requiredFields |-> fails(requiredFields[i])],
                [i \in DOMAIN requiredFields |-> entry(requiredFields[i])])

\* a naming check that leaves out the length limits of the generated names
validateBaseNamesOnly(config, errors) ==
    LET badName(field) == config[field] # EmptyString /\ ~GENERAL_PATTERN(config[field])
        nameEntry(field) ==
            message("Field contains invalid characters for AWS resources", field, EmptyString)
    IN pushEach(errors, [i \in DOMAIN awsNameFields |-> badName(awsNameFields[i])],
                [i \in DOMAIN awsNameFields |-> nameEntry(awsNameFields[i])])

\* validateAwsNamingConventions(config, errors)
validateAwsNamingConventions(config, errors) ==
    LET badName(field) == config[field] # EmptyString /\ ~GENERAL_PATTERN(config[field])
        nameEntry(field) ==
            message("Field contains invalid characters for AWS resources", field, EmptyString)
        named == pushEach(errors, [i \in DOMAIN awsNameFields |-> badName(awsNameFields[i])],
                          [i \in DOMAIN awsNameFields |-> nameEntry(awsNameFields[i])])
        tooLong(limit) ==
            /\ config.resourceNames[limit[1]] # EmptyString
            /\ Len(config.resourceNames[limit[1]]) > limit[2]
        lengthEntry(limit) ==
            message("Generated name exceeds AWS limit", limit[1], config.resourceNames[limit[1]])
    IN pushEach(named, [i \in DOMAIN nameLengthLimits |-> tooLong(nameLengthLimits[i])],
                [i \in DOMAIN nameLengthLimits |-> lengthEntry(nameLengthLimits[i])])

\* `${port}` for a number
portText(port) ==
    IF port.k = "frac" THEN numberToString(port.v) \o <<".", "5">> ELSE numberToString(port.v)

\* a range test that lets port 0 through
portBelowZero(port) == port.k # "int" \/ port.v < 0 \/ port.v > 65535

\* !Number.isInteger(port) || port < 1 || port > 65535
portOutOfRange(port) == port.k # "int" \/ port.v < 1 \/ port.v > 65535

\* validatePortConfiguration(config, errors)
validatePortConfiguration(config, errors) ==
    LET port == config.containerPort
    IN IF port.k # "undefined" /\ portOutOfRange(port)
       THEN Append(errors, message("Container port must be an integer between 1 and 65535, got",
                                   "containerPort", portText(port)))
       ELSE errors

\* validatePaths(config, errors, warnings): the errors
validatePathsErrors(config, errors) ==
    IF config.healthCheckPath # EmptyString /\ ~startsWith(config.healthCheckPath, <<"/">>)
    THEN Append(errors, message("Health check path must start with '/', got",
                                "healthCheckPath", config.healthCheckPath))
    ELSE errors

\* validatePaths(config, errors, warnings): the warnings
validatePathsWarnings(config, warnings) ==
    IF config.dockerfilePath # EmptyString /\ includes(config.dockerfilePath, <<".",".">>)
    THEN Append(warnings, message("Dockerfile path contains '..' which may cause security issues",
                                  "dockerfilePath", config.dockerfilePath))
    ELSE warnings

\* Object.entries(obj) of a build-argument mapping, keys in a fixed order
RECURSIVE keysOf(_)
keysOf(keys) ==
    IF keys = {} THEN <<>>
    ELSE LET k == CHOOSE x \in keys : TRUE IN <<k>> \o keysOf(keys \ {k})

\* validateBuildConfiguration(config, errors, warnings): the errors
validateBuildConfigurationErrors(config, errors) ==
    LET args == config.dockerBuildArgs
        notString(key) == args[key].typeof # "string"
        entry(key) == message("Docker build arg must be a string, got", key, args[key].typeof)
    IN pushEach(errors, [i \in DOMAIN keysOf(DOMAIN args) |-> notString(keysOf(DOMAIN args)[i])],
                [i \in DOMAIN keysOf(DOMAIN args) |-> entry(keysOf(DOMAIN args)[i])])

\* validateBuildConfiguration(config, errors, warnings): the warnings
validateBuildConfigurationWarnings(config, warnings) ==
    IF Len(config.buildCommands) = 0
    THEN Append(warnings, message("No build commands specified, build may fail",
                                  "buildCommands", EmptyString))
    ELSE warnings

\* ConfigurationResolver.validateResourceNames(config, errors, warnings): the warnings
resolverValidateResourceNames(config, warnings) ==
    LET duplicates == duplicatesOf(nameValues(config.resourceNames))
    IN IF Len(duplicates) > 0
       THEN Append(warnings, message("Duplicate resource names detected", "resourceNames",
                                     duplicates))
       ELSE warnings

\* a validation that stops at the first rule group that reports an error
validateFirstFailure(config) ==
    LET e1 == validateRequiredFields(config, <<>>)
        e2 == IF Len(e1) > 0 THEN e1 ELSE validateAwsNamingConventions(config, e1)
        e3 == IF Len(e2) > 0 THEN e2 ELSE validatePortConfiguration(config, e2)
        e4 == IF Len(e3) > 0 THEN e3 ELSE validatePathsErrors(config, e3)
        e5 == IF Len(e4) > 0 THEN e4 ELSE validateBuildConfigurationErrors(config, e4)
    IN [isValid |-> Len(e5) = 0, errors |-> e5, warnings |-> <<>>]

\* a validation that counts its warnings as failures
validateStrict(config) ==
    LET e1 == validateRequiredFields(config, <<>>)
        e2 == validateAwsNamingConventions(config, e1)
        e3 == validatePortConfiguration(config, e2)
        e4 == validatePathsErrors(config, e3)
        w4 == validatePathsWarnings(config, <<>>)
        e5 == validateBuildConfigurationErrors(config, e4)
        w5 == validateBuildConfigurationWarnings(config, w4)
        w6 == resolverValidateResourceNames(config, w5)
    IN [isValid |-> Len(e5) = 0 /\ Len(w6) = 0, errors |-> e5, warnings |-> w6]

\* ConfigurationResolver.validateConfiguration(config)
validateConfiguration(config) ==
    LET e1 == validateRequiredFields(config, <<>>)
        e2 == validateAwsNamingConventions(config, e1)
        e3 == validatePortConfiguration(config, e2)
        e4 == validatePathsErrors(config, e3)
        w4 == validatePathsWarnings(config, <<>>)
        e5 == validateBuildConfigurationErrors(config, e4)
        w5 == validateBuildConfigurationWarnings(config, w4)
        w6 == resolverValidateResourceNames(config, w5)
    IN [isValid |-> Len(e5) = 0, errors |-> e5, warnings |-> w6]

(***************************************************************************)
(* ConfigurationResolver: validation rules, typed errors                    *)
(***************************************************************************)
\* a ValidationError {type, field, message, value, suggestion}
validationError(type, field, text, value, suggestion) ==
    [type |-> type, field |-> field, message |-> text, value |-> value,
     suggestion |-> suggestion]

\* validateRequiredFieldsDetailed(config, errors)
validateRequiredFieldsDetailed(config, errors) ==
    LET fails(field) == missingOrEmpty(config[field])
        entry(field) ==
            validationError("MISSING_REQUIRED_FIELD", field,
                            "Required field is missing or empty", config[field],
                            "Provide a non-empty value")
    IN pushEach(errors, [i \in DOMAIN requiredFields |-> fails(requiredFields[i])],
                [i \in DOMAIN requiredFields |-> entry(requiredFields[i])])

\* validateAwsNamingConventionsDetailed(config, errors)
validateAwsNamingConventionsDetailed(config, errors) ==
    LET fails(field) == config[field] # EmptyString /\ ~GENERAL_PATTERN(config[field])
        entry(field) ==
            validationError("AWS_NAMING_VIOLATION", field,
                            "Field contains invalid characters for AWS resources", config[field],
                            "Use only alphanumeric characters and hyphens, cannot start or end with hyphen")
    IN pushEach(errors, [i \in DOMAIN awsNameFields |-> fails(awsNameFields[i])],
                [i \in DOMAIN awsNameFields |-> entry(awsNameFields[i])])

\* validatePortConfigurationDetailed(config, errors)
validatePortConfigurationDetailed(config, errors) ==
    LET port == config.containerPort
    IN IF port.k # "undefined" /\ portOutOfRange(port)
       THEN Append(errors, validationError("INVALID_PORT", "containerPort",
                               "Container port must be an integer between 1 and 65535",
                               portText(port), "Use a valid port number (e.g., 3000, 8080, 80)"))
       ELSE errors

\* validatePathsDetailed(config, errors, warnings): the errors
validatePathsDetailedErrors(config, errors) ==
    IF config.healthCheckPath # EmptyString /\ ~startsWith(config.healthCheckPath, <<"/">>)
    THEN Append(errors, validationError("INVALID_PATH", "healthCheckPath",
                            "Health check path must start with '/'", config.healthCheckPath,
                            "Use an absolute path like '/api/health' or '/health'"))
    ELSE errors

\* validatePathsDetailed(config, errors, warnings): the warnings
validatePathsDetailedWarnings(config, warnings) == validatePathsWarnings(config, warnings)

\* ConfigurationResolver.validateConfigurationDetailed(config)
validateConfigurationDetailed(config) ==
    LET e1 == validateRequiredFieldsDetailed(config, <<>>)
        e2 == validateAwsNamingConventionsDetailed(config, e1)
        e3 == validatePortConfigurationDetailed(config, e2)
        e4 == validatePathsDetailedErrors(config, e3)
        w4 == validatePathsDetailedWarnings(config, <<>>)
    IN [isValid |-> Len(e4) = 0, errors |-> e4, warnings |-> w4,
        summary |-> [passed |-> Len(e4) = 0, errorCount |-> Len(e4),
                     stage |-> config.resolvedStage]]

(***************************************************************************)
(* ConfigurationResolver: resolveConfiguration                              *)
(***************************************************************************)
\* new Map(envConfigs.map(config => [config.stage, config])): a later entry wins
mapOf(envConfigs) ==
    LET stages == {envConfigs[i].stage : i \in DOMAIN envConfigs}
        lastOf(st) == CHOOSE i \in DOMAIN envConfigs :
                          /\ envConfigs[i].stage = st
                          /\ \A j \in DOMAIN envConfigs : envConfigs[j].stage = st => j <= i
    IN [st \in stages |-> envConfigs[lastOf(st)]]

\* Map.prototype.get
mapGet(map, key) == IF key \in DOMAIN map THEN map[key] ELSE undefined

\* the application overrides of resolveConfiguration (the first spread)
applyApplicationOverrides(config, envConfig) ==
    IF has(envConfig, "applicationOverrides")
    THEN spread(config, envConfig.applicationOverrides)
    ELSE config

\* build overrides whose dockerBuildArgs replace the mapping instead of merging into it
replaceBuildArgs(config, envConfig) ==
    IF ~has(envConfig, "buildOverrides") THEN config
    ELSE spread(config, envConfig.buildOverrides)

\* the build overrides of resolveConfiguration
applyBuildOverrides(config, envConfig) ==
    IF ~has(envConfig, "buildOverrides") THEN config
    ELSE LET build == envConfig.buildOverrides
             c1 == IF has(build, "buildCommands")
                   THEN [config EXCEPT !.buildCommands = build.buildCommands]
                   ELSE config
         IN IF has(build, "dockerBuildArgs")
            THEN [c1 EXCEPT !.dockerBuildArgs = spread(c1.dockerBuildArgs, build.dockerBuildArgs)]
            ELSE c1

\* resolvedConfig after the override block of resolveConfiguration
mergeOverrides(config, envConfig) ==
    IF envConfig # undefined
    THEN applyBuildOverrides(applyApplicationOverrides(config, envConfig), envConfig)
    ELSE config

\* { ...resolvedConfig, resolvedStage: stage, resourceNames }
assemble(config, stage, resourceNames) ==
    spread(config, [resolvedStage |-> stage, resourceNames |-> resourceNames])

\* names generated from the base configuration instead of the merged one
namesFromBase(config, base, stage, envConfig) ==
    resolverGenerateResourceNames(base, stage, envConfig)

\* the names resolveConfiguration puts into the assembled configuration
namesForResolved(config, base, stage, envConfig) ==
    resolverGenerateResourceNames(config, stage, envConfig)

\* a resolveConfiguration that also throws on warnings
rejectsWarnings(validation) == ~validation.isValid \/ Len(validation.warnings) > 0

\* whether resolveConfiguration throws on a validation result
rejects(validation) == ~validation.isValid

\* new Error(`Configuration validation failed for stage '${stage}': ${errors.join(', ')}`)
validationFailed(stage, errors) ==
    [message |-> "Configuration validation failed for stage", stage |-> stage,
     joined |-> errors]

\* new Error('Stage must be a non-empty string')
stageRequired == [message |-> "Stage must be a non-empty string"]

\* ConfigurationResolver.resolveConfiguration(stage): the outcome of the call
resolveConfiguration(config, envs, stage) ==
    IF stage = EmptyString
    THEN [op |-> "resolveConfiguration", stage |-> stage, threw |-> TRUE,
          error |-> stageRequired, warned |-> FALSE,
          assembled |-> undefined, validation |-> undefined, value |-> undefined]
    ELSE LET envConfig == mapGet(envs, stage)
             merged == mergeOverrides(config, envConfig)
             resourceNames == namesForResolved(merged, config, stage, envConfig)
             assembled == assemble(merged, stage, resourceNames)
             validation == validateConfiguration(assembled)
         IN [op |-> "resolveConfiguration", stage |-> stage,
             threw |-> rejects(validation),
             error |-> IF rejects(validation)
                       THEN validationFailed(stage, validation.errors) ELSE undefined,
             warned |-> (envConfig = undefined),
             assembled |-> assembled, validation |-> validation,
             value |-> IF rejects(validation) THEN undefined ELSE assembled]

(***************************************************************************)
(* ResourceNameGenerator (resource-name-generator.ts)                       *)
(***************************************************************************)
\* a name returned, an Error thrown
returnedName(name) == [threw |-> FALSE, value |-> name]
thrownError(text, name) == [threw |-> TRUE, error |-> [message |-> text, name |-> name]]

\* candidates whose numeric suffix counts the attempts from 0
candidateNameFromZero(baseName, attempt, config) ==
    IF config.collisionResolution = "NUMERIC_SUFFIX"
    THEN baseName \o hyphen \o numberToString(attempt - 1)
    ELSE baseName \o hyphen \o generateShortHash(baseName \o numberToString(attempt))

\* candidates whose hash is salted with the generator's attempt limit
candidateNameSalted(baseName, attempt, config) ==
    IF config.collisionResolution = "NUMERIC_SUFFIX"
    THEN baseName \o hyphen \o numberToString(attempt)
    ELSE baseName \o hyphen \o
             generateShortHash(baseName \o numberToString(attempt) \o
                               (IF "maxCollisionAttempts" \in DOMAIN config
                                THEN numberToString(config.maxCollisionAttempts)
                                ELSE EmptyString))

\* the candidate of one attempt of generateUniqueName, strategy NUMERIC_SUFFIX or HASH_SUFFIX
candidateName(baseName, attempt, config) ==
    IF config.collisionResolution = "NUMERIC_SUFFIX"
    THEN baseName \o hyphen \o numberToString(attempt)
    ELSE baseName \o hyphen \o generateShortHash(baseName \o numberToString(attempt))

\* the while loop of generateUniqueName, entered with `attempt` attempts made
RECURSIVE resolveCollision(_, _, _, _, _)
resolveCollision(baseName, resourceType, existing, config, attempt) ==
    IF attempt < config.maxCollisionAttempts
    THEN IF config.collisionResolution = "ERROR"
         THEN thrownError("Naming conflict detected and collision resolution is set to ERROR",
                          baseName)
         ELSE LET candidate == candidateName(baseName, attempt + 1, config)
              IN IF candidate \notin existing /\ isValidResourceName(candidate, resourceType)
                 THEN returnedName(candidate)
                 ELSE resolveCollision(baseName, resourceType, existing, config, attempt + 1)
    ELSE thrownError("Unable to generate unique name after maxCollisionAttempts attempts",
                     baseName)

\* a generateUniqueName that returns a free base name without testing its validity
generateUniqueNameUnvalidated(baseName, resourceType, existing, config) ==
    IF Len(baseName) > LENGTH_LIMITS(resourceType)
    THEN thrownError("Base name exceeds maximum length", baseName)
    ELSE IF baseName \notin existing
         THEN returnedName(baseName)
         ELSE resolveCollision(baseName, resourceType, existing, config, 0)

\* generateUniqueName(baseName, resourceType) with this.existingNames = existing
generateUniqueName(baseName, resourceType, existing, config) ==
    IF Len(baseName) > LENGTH_LIMITS(resourceType)
    THEN thrownError("Base name exceeds maximum length", baseName)
    ELSE IF baseName \notin existing /\ isValidResourceName(baseName, resourceType)
         THEN returnedName(baseName)
         ELSE resolveCollision(baseName, resourceType, existing, config, 0)

\* a validation of the generated names that does not look for duplicates
validateEachNameOnly(resourceNames, config) ==
    LET invalid(key) ==
            ~isValidResourceName(resourceNames[key],
                                 IF key \in {"albSecurityGroupName", "ecsSecurityGroupName"}
                                 THEN "securityGroupName" ELSE key)
        invalidEntry(key) == message("Invalid", key, resourceNames[key])
        e1 == pushEach(<<>>, [i \in DOMAIN NameKeys |-> invalid(NameKeys[i])],
                       [i \in DOMAIN NameKeys |-> invalidEntry(NameKeys[i])])
    IN [isValid |-> Len(e1) = 0, errors |-> e1, warnings |-> <<>>]

\* the resource type each of the nine names is validated as
validationKey(resourceKey) ==
    IF resourceKey = "albSecurityGroupName" \/ resourceKey = "ecsSecurityGroupName"
    THEN "securityGroupName" ELSE resourceKey

\* ResourceNameGenerator.validateResourceNames(resourceNames)
validateResourceNames(resourceNames, config) ==
    LET invalid(key) == ~isValidResourceName(resourceNames[key], validationKey(key))
        invalidEntry(key) == message("Invalid", key, resourceNames[key])
        e1 == pushEach(<<>>, [i \in DOMAIN NameKeys |-> invalid(NameKeys[i])],
                       [i \in DOMAIN NameKeys |-> invalidEntry(NameKeys[i])])
        duplicates == duplicatesOf(nameValues(resourceNames))
        e2 == IF Len(duplicates) > 0
              THEN Append(e1, message("Duplicate resource names detected", "resourceNames",
                                      duplicates))
              ELSE e1
        reserved(key) == resourceNames[key] # EmptyString /\ hasReservedPrefix(resourceNames[key])
        reservedEntry(key) == message("starts with reserved prefix", key, resourceNames[key])
        w == IF config.checkReservedPrefixes
             THEN pushEach(<<>>, [i \in DOMAIN NameKeys |-> reserved(NameKeys[i])],
                           [i \in DOMAIN NameKeys |-> reservedEntry(NameKeys[i])]) ELSE <<>>
    IN [isValid |-> Len(e2) = 0, errors |-> e2, warnings |-> w]

\* ResourceNameGenerator.validateSingleResourceName(name, resourceType) with
\* this.existingNames = existing
validateSingleResourceName(name, resourceType, existing, config) ==
    IF name = EmptyString
    THEN [isValid |-> FALSE, errors |-> <<"Resource name must be a non-empty string">>,
          warnings |-> <<>>]
    ELSE LET e1 == IF Len(name) > LENGTH_LIMITS(resourceType)
                   THEN <<"Name exceeds maximum length">> ELSE <<>>
             e2 == CASE resourceType = "ecrRepositoryName" ->
                            IF ECR_PATTERN(name) THEN e1
                            ELSE Append(e1, "ECR repository name must contain only lowercase letters, numbers, hyphens, underscores, and forward slashes")
                      [] resourceType = "logGroupName" ->
                            IF LOG_GROUP_PATTERN(name) THEN e1
                            ELSE Append(e1, "Log group name contains invalid characters")
                      [] OTHER ->
                            IF GENERAL_PATTERN(name) THEN e1
                            ELSE Append(e1, "Name must contain only alphanumeric characters and hyphens, and cannot start or end with a hyphen")
             w == IF config.checkReservedPrefixes /\ hasReservedPrefix(name)
                  THEN <<"Name starts with a reserved prefix which may cause issues">>
                  ELSE <<>>
             e3 == IF name \in existing
                   THEN Append(e2, "Name already exists and would cause a conflict") ELSE e2
         IN [isValid |-> Len(e3) = 0, errors |-> e3, warnings |-> w]

\* environmentConfig?.namingConvention || { useStagePrefix: false, useStageSuffix: true, ... }
generatorNamingConvention(environmentConfig) ==
    IF has(environmentConfig, "namingConvention") THEN environmentConfig.namingConvention
    ELSE [useStagePrefix |-> FALSE, useStageSuffix |-> TRUE, separator |-> hyphen]

\* a naming that tests the stage for emptiness only
generatorApplyNamingUntrimmed(baseName, stage, namingConvention) ==
    IF stage # EmptyString
    THEN LET prefixed == IF namingConvention.useStagePrefix
                         THEN stage \o namingConvention.separator \o baseName ELSE baseName
         IN IF namingConvention.useStageSuffix
            THEN prefixed \o namingConvention.separator \o stage ELSE prefixed
    ELSE baseName

\* applyNaming(baseName) of ResourceNameGenerator.generateResourceNames
generatorApplyNaming(baseName, stage, namingConvention) ==
    IF stage # EmptyString /\ trim(stage) # EmptyString
    THEN LET prefixed == IF namingConvention.useStagePrefix
                         THEN stage \o namingConvention.separator \o baseName ELSE baseName
         IN IF namingConvention.useStageSuffix
            THEN prefixed \o namingConvention.separator \o stage ELSE prefixed
    ELSE baseName

\* the base name each generateUniqueName call of generateResourceNames is given
baseNames(applicationConfig, stage, namingConvention) ==
    LET applyNaming(baseName) == generatorApplyNaming(baseName, stage, namingConvention)
        names == nineNames(applicationConfig,
                           [baseName \in namedBases(applicationConfig) |->
                               applyNaming(baseName)])
    IN [names EXCEPT !.ecrRepositoryName =
                         normalizeEcrName(applyNaming(applicationConfig.ecrRepositoryName))]

\* the keys of the object literal that go through generateUniqueName, in evaluation order
UniqueNameKeys == <<"ecrRepositoryName", "clusterName", "serviceName", "taskDefinitionFamily",
                    "albName", "targetGroupName", "albSecurityGroupName",
                    "ecsSecurityGroupName">>

\* ResourceNameGenerator.generateResourceNames(context) with this.existingNames = existing:
\* the outcome of the call, the resourceNames object if it was built, the set the
\* generateUniqueName calls consulted and this.existingNames after the call
generateResourceNames(context, existing, config) ==
    LET merged == IF has(context, "existingNames")
                  THEN existing \cup context.existingNames ELSE existing
        namingConvention == generatorNamingConvention(context.environmentConfig)
        bases == baseNames(context.applicationConfig, context.stage, namingConvention)
        unique == [key \in Range(UniqueNameKeys) |->
                      generateUniqueName(bases[key], validationKey(key), merged, config)]
        failing(i) == unique[UniqueNameKeys[i]].threw
        failed == filter(UniqueNameKeys, [i \in DOMAIN UniqueNameKeys |-> failing(i)], 1)
    IN IF Len(failed) > 0
       THEN [op |-> "generateResourceNames", context |-> context, threw |-> TRUE,
             error |-> unique[failed[1]].error, value |-> undefined,
             resourceNames |-> undefined, validation |-> undefined,
             consulted |-> merged, existingNames |-> merged]
       ELSE LET resourceNames == [key \in Range(NameKeys) |->
                                     IF key = "logGroupName" THEN bases[key]
                                     ELSE unique[key].value]
                validation == validateResourceNames(resourceNames, config)
            IN IF ~validation.isValid
               THEN [op |-> "generateResourceNames", context |-> context, threw |-> TRUE,
                     error |-> [message |-> "Resource name validation failed",
                                joined |-> validation.errors],
                     value |-> undefined, resourceNames |-> resourceNames,
                     validation |-> validation,
                     consulted |-> merged, existingNames |-> merged]
               ELSE [op |-> "generateResourceNames", context |-> context, threw |-> FALSE,
                     error |-> undefined, value |-> resourceNames,
                     resourceNames |-> resourceNames, validation |-> validation,
                     consulted |-> merged,
                     existingNames |-> merged \cup Range(nameValues(resourceNames))]

(***************************************************************************)
(* Simplified resolver (lib/utils/simple-config-resolver)                   *)
(***************************************************************************)
\* a lookup that falls back to a default entry for a stage the table does not have
getEnvironmentConfigOrDefault(table, stage) ==
    IF \E i \in DOMAIN table : table[i].stage = stage
    THEN table[CHOOSE i \in DOMAIN table :
                   /\ table[i].stage = stage
                   /\ \A j \in DOMAIN table : table[j].stage = stage => i <= j]
    ELSE [stage |-> stage, namingConvention |-> defaultNamingConvention]

\* getEnvironmentConfig(stage): ENVIRONMENT_CONFIGS.find(config => config.stage === stage)
getEnvironmentConfig(table, stage) ==
    IF \E i \in DOMAIN table : table[i].stage = stage
    THEN table[CHOOSE i \in DOMAIN table :
                   /\ table[i].stage = stage
                   /\ \A j \in DOMAIN table : table[j].stage = stage => i <= j]
    ELSE undefined

\* getAvailableStages(): Object.keys / map(config => config.stage)
getAvailableStages(table) == [i \in DOMAIN table |-> table[i].stage]

\* generateResourceNames(config, stage, envConfig) of the simplified resolver; reading
\* namingConvention.useStagePrefix of an entry without a convention is a TypeError
simpleGenerateResourceNames(config, stage, envConfig) ==
    IF ~has(envConfig, "namingConvention") THEN [TypeError |-> "namingConvention"]
    ELSE LET namingConvention == envConfig.namingConvention
             applyNaming(baseName) ==
                 LET prefixed == IF namingConvention.useStagePrefix
                                 THEN stage \o namingConvention.separator \o baseName
                                 ELSE baseName
                 IN IF namingConvention.useStageSuffix
                    THEN prefixed \o namingConvention.separator \o stage ELSE prefixed
         IN nineNames(config, [baseName \in namedBases(config) |-> applyNaming(baseName)])

\* workingConfig after the two override blocks of the simplified resolveConfiguration
simpleMergeOverrides(baseConfig, envConfig) ==
    LET c1 == IF has(envConfig, "applicationOverrides")
              THEN spread(baseConfig, envConfig.applicationOverrides) ELSE baseConfig
        build == IF has(envConfig, "buildOverrides") THEN envConfig.buildOverrides ELSE <<>>
        c2 == IF has(build, "buildCommands")
              THEN [c1 EXCEPT !.buildCommands = build.buildCommands] ELSE c1
    IN IF has(build, "dockerBuildArgs")
       THEN [c2 EXCEPT !.dockerBuildArgs = spread(c2.dockerBuildArgs, build.dockerBuildArgs)]
       ELSE c2

\* resolveConfiguration(stage, baseConfig) of the simplified resolver: the outcome of the call
simpleResolveConfiguration(table, stage, baseConfig) ==
    LET envConfig == getEnvironmentConfig(table, stage)
    IN IF envConfig = undefined
       THEN [op |-> "resolveConfiguration", stage |-> stage, baseConfig |-> baseConfig,
             threw |-> TRUE,
             error |-> [message |-> "No environment configuration found for stage",
                        stage |-> stage, available |-> getAvailableStages(table)],
             value |-> undefined]
       ELSE LET workingConfig == simpleMergeOverrides(baseConfig, envConfig)
                resourceNames == simpleGenerateResourceNames(workingConfig, stage, envConfig)
            IN IF has(resourceNames, "TypeError")
               THEN [op |-> "resolveConfiguration", stage |-> stage,
                     baseConfig |-> baseConfig, threw |-> TRUE,
                     error |-> [message |-> "TypeError"], value |-> undefined]
               ELSE [op |-> "resolveConfiguration", stage |-> stage,
                     baseConfig |-> baseConfig, threw |-> FALSE, error |-> undefined,
                     value |-> spread(workingConfig, [resolvedStage |-> stage,
                                                      resourceNames |-> resourceNames])]

\* getEnvironmentConfigOrThrow(stage): the outcome of the call
getEnvironmentConfigOrThrow(table, stage) ==
    LET envConfig == getEnvironmentConfig(table, stage)
    IN IF envConfig = undefined
       THEN [op |-> "getEnvironmentConfigOrThrow", stage |-> stage, threw |-> TRUE,
             error |-> [message |-> "No environment configuration found for stage",
                        stage |-> stage],
             value |-> undefined]
       ELSE [op |-> "getEnvironmentConfigOrThrow", stage |-> stage, threw |-> FALSE,
             error |-> undefined, value |-> envConfig]

(***************************************************************************)
(* Inputs: base configurations                                             *)
(***************************************************************************)
\* number of fields in which a base configuration may differ from the scenario's
MaxDeviations == 2
\* length of the long load-balancer name ('a'.repeat(n)); with "-beta" it passes 32
LongNameLength == 28

\* the base configuration of the specification's scenario
SvcConfig ==
    [applicationName |-> svc, applicationDisplayName |-> "Svc Application",
     sourceDirectory |-> svc, ecrRepositoryName |-> svc,
     dockerfilePath |-> <<"D","o","c","k","e","r","f","i","l","e">>,
     containerPort |-> int(3000), healthCheckPath |-> <<"/","h","e","a","l","t","h">>,
     serviceName |-> svcService, clusterNameSuffix |-> <<"c","l","u","s","t","e","r">>,
     taskDefinitionFamily |-> svc, albName |-> <<"s","v","c","-","a","l","b">>,
     targetGroupName |-> <<"s","v","c","-","t","g">>,
     buildCommands |-> <<"npm ci", "npm run build">>,
     dockerBuildArgs |-> ("B" :> str("2"))]

\* single-field changes a caller may make to it: <<field, value>>
Deviations ==
    { <<"applicationName", EmptyString>>,
      <<"sourceDirectory", blank>>,
      <<"ecrRepositoryName", <<"S","v","c">>>>,
      <<"ecrRepositoryName", <<"s","v","c","-","r","e","p","o">>>>,
      <<"containerPort", int(-1)>>,
      <<"containerPort", int(0)>>,
      <<"containerPort", int(1)>>,
      <<"containerPort", int(65535)>>,
      <<"containerPort", int(65536)>>,
      <<"containerPort", [k |-> "frac", v |-> 80]>>,
      <<"containerPort", [k |-> "undefined", v |-> 0]>>,
      <<"healthCheckPath", <<"s","t","a","t","u","s">>>>,
      <<"healthCheckPath", EmptyString>>,
      <<"serviceName", <<"-","b","a","d","-">>>>,
      <<"serviceName", <<"a">>>>,
      <<"taskDefinitionFamily", <<"s","v","c","-","t","a","s","k">>>>,
      <<"albName", repeat("a", LongNameLength)>>,
      <<"clusterNameSuffix", repeat("c", 250)>>,
      <<"targetGroupName", <<"s","v","c","_","t","g">>>>,
      <<"dockerfilePath", <<".",".","/","D","o","c","k","e","r","f","i","l","e">>>>,
      <<"buildCommands", <<>> >>,
      <<"dockerBuildArgs", ("B" :> [typeof |-> "number", v |-> "2"])>> }

\* the configurations at most n single-field changes away from config
RECURSIVE deviated(_, _)
deviated(config, n) ==
    IF n = 0 THEN {config}
    ELSE LET fewer == deviated(config, n - 1)
         IN fewer \cup {[c EXCEPT ![d[1]] = d[2]] : c \in fewer, d \in Deviations}

BaseConfigs == deviated(SvcConfig, MaxDeviations)

(***************************************************************************)
(* Inputs: environment configurations and stages                           *)
(***************************************************************************)
convention(prefix, suffix, separator) ==
    [useStagePrefix |-> prefix, useStageSuffix |-> suffix, separator |-> separator]

\* the two stages of the resolver's tests
betaOverrides ==
    [stage |-> beta, namingConvention |-> convention(FALSE, TRUE, hyphen),
     applicationOverrides |-> [containerPort |-> int(3001)],
     buildOverrides |-> [dockerBuildArgs |-> ("A" :> str("1"))]]
prodBuildCommands ==
    [stage |-> prod, namingConvention |-> convention(FALSE, TRUE, hyphen),
     buildOverrides |-> [buildCommands |-> <<"npm ci --only=production", "npm run build">>]]
\* stage prefix and '_', no overrides
betaPrefixed == [stage |-> beta, namingConvention |-> convention(TRUE, FALSE, <<"_">>)]
\* an override the validation rejects
prodInvalidPort ==
    [stage |-> prod, namingConvention |-> convention(FALSE, TRUE, hyphen),
     applicationOverrides |-> [containerPort |-> int(-999)]]
\* prefix and suffix, '.'
betaBoth == [stage |-> beta, namingConvention |-> convention(TRUE, TRUE, <<".">>)]
\* neither prefix nor suffix; the build commands replaced by an empty list
prodBare ==
    [stage |-> prod, namingConvention |-> convention(FALSE, FALSE, hyphen),
     buildOverrides |-> [buildCommands |-> <<>>]]
\* no naming convention (lib/types EnvironmentConfig); overrides of identifiers and of the
\* build arguments at both levels
betaPlain ==
    [stage |-> beta,
     applicationOverrides |-> [serviceName |-> <<"a","p","i">>, applicationName |-> <<"a","p","i">>,
                               dockerBuildArgs |-> ("C" :> str("3"))],
     buildOverrides |-> [dockerBuildArgs |-> ("A" :> str("1") @@ "C" :> str("4"))]]
\* an entry a later entry for the same stage replaces
betaShadowed == [stage |-> beta, namingConvention |-> convention(TRUE, TRUE, hyphen)]

\* the envConfigs arrays given to the constructor
EnvConfigArrays ==
    { <<>>,
      <<betaOverrides, prodBuildCommands>>,
      <<betaPrefixed, prodInvalidPort>>,
      <<betaBoth, prodBare>>,
      <<betaShadowed, betaPlain>> }

\* the stages callers ask for
Stages == {beta, prod, <<"q","a">>, EmptyString}

(***************************************************************************)
(* ConfigurationResolver: state machine                                    *)
(***************************************************************************)
NoCall == [op |-> "none"]

\* new ConfigurationResolver(defaultConfig, envConfigs)
InitResolver ==
    /\ defaultConfig \in BaseConfigs
    /\ environmentConfigs \in {mapOf(a) : a \in EnvConfigArrays}
    /\ resolved = NoCall
    /\ flat = NoCall
    /\ detailed = NoCall

\* a call that merges the overrides into this.defaultConfig itself, without the copy
ResolveConfigurationInPlace(stage) ==
    /\ resolved' = resolveConfiguration(defaultConfig, environmentConfigs, stage)
    /\ flat' = NoCall
    /\ detailed' = NoCall
    /\ defaultConfig' = IF stage = EmptyString THEN defaultConfig
                        ELSE mergeOverrides(defaultConfig, mapGet(environmentConfigs, stage))
    /\ UNCHANGED environmentConfigs

\* resolver.resolveConfiguration(stage)
ResolveConfiguration(stage) ==
    /\ resolved' = resolveConfiguration(defaultConfig, environmentConfigs, stage)
    /\ flat' = NoCall
    /\ detailed' = NoCall
    /\ UNCHANGED <<defaultConfig, environmentConfigs>>

\* the ResolvedApplicationConfig the two public validators are given: the configuration
\* assembled for the stage of the last call (base + overrides + resolvedStage + resourceNames),
\* which a caller can build for itself as the tests do, valid or not
heldConfiguration == resolved.assembled

\* resolver.validateConfiguration(config)
ValidateConfiguration ==
    /\ resolved.op = "resolveConfiguration"
    /\ heldConfiguration # undefined
    /\ flat' = [op |-> "validateConfiguration", config |-> heldConfiguration,
                result |-> validateConfiguration(heldConfiguration)]
    /\ UNCHANGED <<defaultConfig, environmentConfigs, resolved, detailed>>

\* resolver.validateConfigurationDetailed(config)
ValidateConfigurationDetailed ==
    /\ resolved.op = "resolveConfiguration"
    /\ heldConfiguration # undefined
    /\ detailed' = [op |-> "validateConfigurationDetailed", config |-> heldConfiguration,
                    result |-> validateConfigurationDetailed(heldConfiguration)]
    /\ UNCHANGED <<defaultConfig, environmentConfigs, resolved, flat>>

(***************************************************************************)
(* Simplified resolver: state machine                                      *)
(***************************************************************************)
\* the ENVIRONMENT_CONFIGS tables: the repository's (beta, gamma, prod: default convention,
\* build overrides), and smaller ones with other conventions, with overrides of identifiers
\* and with two entries for one stage
EnvironmentTables ==
    LET betaEnvironment ==
            [stage |-> beta, namingConvention |-> convention(FALSE, TRUE, hyphen),
             applicationOverrides |-> <<>>,
             buildOverrides |-> [dockerBuildArgs |-> ("NODE_ENV" :> str("production")
                                                      @@ "NEXT_PUBLIC_ENV" :> str("beta")),
                                 buildCommands |-> <<"npm ci", "NODE_ENV=production npm run build",
                                                     "npm run test:ci">>]]
        gammaEnvironment ==
            [stage |-> <<"g","a","m","m","a">>, namingConvention |-> convention(FALSE, TRUE, hyphen),
             applicationOverrides |-> <<>>,
             buildOverrides |-> [dockerBuildArgs |-> ("NODE_ENV" :> str("production")
                                                      @@ "NEXT_PUBLIC_ENV" :> str("gamma")),
                                 buildCommands |-> <<"npm ci", "NODE_ENV=production npm run build",
                                                     "npm run test:ci", "npm run test:e2e">>]]
        prodEnvironment ==
            [stage |-> prod, namingConvention |-> convention(FALSE, TRUE, hyphen),
             applicationOverrides |-> <<>>,
             buildOverrides |-> [dockerBuildArgs |-> ("NODE_ENV" :> str("production")
                                                      @@ "NEXT_PUBLIC_ENV" :> str("production")),
                                 buildCommands |-> <<"npm ci --only=production",
                                                     "NODE_ENV=production npm run build",
                                                     "npm run validate:build">>]]
    IN { <<betaEnvironment, gammaEnvironment, prodEnvironment>>,
         <<>>,
         <<betaOverrides, prodBuildCommands>>,
         <<betaPrefixed, prodInvalidPort>>,
         <<betaBoth, prodBare>>,
         <<betaShadowed, betaPrefixed>> }

\* the modules as loaded: DEFAULT_APPLICATION_CONFIG and ENVIRONMENT_CONFIGS
InitSimple ==
    /\ defaultConfig \in BaseConfigs
    /\ ENVIRONMENT_CONFIGS \in EnvironmentTables
    /\ simple = NoCall

\* resolveConfiguration(stage), baseConfig = DEFAULT_APPLICATION_CONFIG
SimpleResolveConfiguration(stage) ==
    /\ simple' = simpleResolveConfiguration(ENVIRONMENT_CONFIGS, stage, defaultConfig)
    /\ UNCHANGED ENVIRONMENT_CONFIGS

\* getEnvironmentConfigOrThrow(stage)
GetEnvironmentConfigOrThrow(stage) ==
    /\ simple' = getEnvironmentConfigOrThrow(ENVIRONMENT_CONFIGS, stage)
    /\ UNCHANGED ENVIRONMENT_CONFIGS

(***************************************************************************)
(* ResourceNameGenerator: state machine                                    *)
(***************************************************************************)
\* generateResourceNames calls made on one generator
MaxCalls == 2
\* the larger maxCollisionAttempts a generator is configured with
MaxCollisionAttempts == 2

\* the application configurations of the contexts: the scenario's (registry and task family
\* share the base 'svc'), one with nine distinct bases as in the generator's tests, and that
\* one with an upper-case registry name, an invalid service name, a long load-balancer name
DistinctConfig ==
    [SvcConfig EXCEPT !.ecrRepositoryName = <<"s","v","c","-","r","e","p","o">>,
                      !.taskDefinitionFamily = <<"s","v","c","-","t","a","s","k">>]
GeneratorApplicationConfigs ==
    { SvcConfig,
      DistinctConfig,
      [DistinctConfig EXCEPT !.ecrRepositoryName = <<"S","v","c">>],
      [DistinctConfig EXCEPT !.serviceName = <<"-","b","a","d","-">>],
      [DistinctConfig EXCEPT !.serviceName = <<"E","c","s","-","a","p","i">>],
      [DistinctConfig EXCEPT !.albName = repeat("a", LongNameLength)] }

\* the ResourceNameGeneratorConfig values
GeneratorConfigs ==
    [collisionResolution : {"NUMERIC_SUFFIX", "HASH_SUFFIX", "ERROR"},
     maxCollisionAttempts : {1, MaxCollisionAttempts},
     validateAwsRules : {TRUE},
     checkReservedPrefixes : {TRUE}]

\* sets of names that exist already
svcServiceBeta == svcService \o hyphen \o beta
ExistingNameSets == { {}, {svcServiceBeta}, {svcServiceBeta, svcServiceBeta \o <<"-", "1">>} }

\* the stages and environment configurations of the contexts
GeneratorStages == {beta, blank}
GeneratorEnvironments == {undefined, betaPrefixed}

\* the NameGenerationContext values
Contexts ==
    {[applicationConfig |-> defaultConfig, stage |-> stage, environmentConfig |-> env] :
        stage \in GeneratorStages, env \in GeneratorEnvironments}
    \cup
    {[applicationConfig |-> defaultConfig, stage |-> stage, environmentConfig |-> env,
      existingNames |-> names] :
        stage \in GeneratorStages, env \in GeneratorEnvironments,
        names \in ExistingNameSets \ {{}}}

\* the contexts a configuration is resolved with again: one stage, the default convention
RegenerateContexts ==
    {context \in Contexts : context.stage = beta /\ context.environmentConfig = undefined}

\* new ResourceNameGenerator(config, existingNames)
InitGenerator ==
    /\ defaultConfig \in GeneratorApplicationConfigs
    /\ genConfig \in GeneratorConfigs
    /\ existingNames \in ExistingNameSets
    /\ generated = NoCall
    /\ calls = 0

\* a call that tests the names before the context's existing names are merged
GenerateResourceNamesUnmerged(context) ==
    /\ calls < MaxCalls
    /\ generated' =
           [generateResourceNames([f \in DOMAIN context \ {"existingNames"} |-> context[f]],
                                  existingNames, genConfig)
               EXCEPT !.context = context,
                      !.consulted = IF has(context, "existingNames")
                                    THEN existingNames \cup context.existingNames
                                    ELSE existingNames]
    /\ existingNames' = generated'.existingNames \cup generated'.consulted
    /\ calls' = calls + 1
    /\ UNCHANGED genConfig

\* a call that puts the nine names into this.existingNames before it validates them
GenerateResourceNamesClaimingEarly(context) ==
    /\ calls < MaxCalls
    /\ generated' = generateResourceNames(context, existingNames, genConfig)
    /\ existingNames' = IF generated'.resourceNames # undefined
                        THEN generated'.existingNames
                                 \cup Range(nameValues(generated'.resourceNames))
                        ELSE generated'.existingNames
    /\ calls' = calls + 1
    /\ UNCHANGED genConfig

\* generator.generateResourceNames(context)
GenerateResourceNames(context) ==
    /\ calls < MaxCalls
    /\ generated' = generateResourceNames(context, existingNames, genConfig)
    /\ existingNames' = generated'.existingNames
    /\ calls' = calls + 1
    /\ UNCHANGED genConfig

\* generator.addExistingNames(names)
AddExistingNames(names) ==
    /\ existingNames' = existingNames \cup names
    /\ UNCHANGED <<genConfig, generated, calls>>

\* generator.validateSingleResourceName(name, resourceType) on one of the nine names the
\* last generateResourceNames call built
ValidateSingleResourceName(key) ==
    /\ generated.op = "generateResourceNames"
    /\ generated.resourceNames # undefined
    /\ helper' = [op |-> "validateSingleResourceName", key |-> key,
                  name |-> generated.resourceNames[key], resourceType |-> validationKey(key),
                  result |-> validateSingleResourceName(generated.resourceNames[key],
                                                        validationKey(key), existingNames,
                                                        genConfig)]
    /\ UNCHANGED generatorVars

\* generator.clearExistingNames()
ClearExistingNames ==
    /\ existingNames' = {}
    /\ UNCHANGED <<genConfig, generated, calls>>

(***************************************************************************)
(* ResourceNameGenerator.generateUniqueName, statement by statement         *)
(***************************************************************************)
\* a length test that lets every base name through
neverExceeds(baseName, resourceType) == FALSE

\* baseName.length > AWS_NAMING_RULES.LENGTH_LIMITS[resourceType]
exceedsMaximumLength(baseName, resourceType) == Len(baseName) > LENGTH_LIMITS(resourceType)

\* !this.existingNames.has(candidateName) && this.isValidResourceName(candidateName, resourceType)
uniqueAndValid(candidate, resourceType, existing) ==
    candidate \notin existing /\ isValidResourceName(candidate, resourceType)

\* a loop test that allows one more pass
attemptsLeftInclusive(attempt, config) == attempt <= config.maxCollisionAttempts

\* while (attempt < this.config.maxCollisionAttempts)
attemptsLeft(attempt, config) == attempt < config.maxCollisionAttempts

\* a strategy test under which no strategy throws on a conflict
neverFailsOnConflict(config) == FALSE

\* case CollisionResolutionStrategy.ERROR
failsOnConflict(config) == config.collisionResolution = "ERROR"

\* the base names generateUniqueName is called with: conformant ones, one with an underscore
\* (conformant for the registry only), a single character, and runs of 'a' around the
\* 32-character limit of load balancers
UniqueBaseNames ==
    {svc \o hyphen \o beta, <<"c","a","r","t","-","q","a">>,
     <<"s","v","c","_","b","e","t","a">>, <<"a">>,
     repeat("a", LongNameLength + 3), repeat("a", LongNameLength + 5)}

\* the sets of existing names a generator is constructed with: none, every base name,
\* every base name with its first numeric or hash candidate, with its first two
UniqueExistingSets ==
    LET suffixed(strategy, k) ==
            {candidateName(b, k, [collisionResolution |-> strategy]) : b \in UniqueBaseNames}
    IN { {},
         UniqueBaseNames,
         UniqueBaseNames \cup suffixed("NUMERIC_SUFFIX", 1) \cup suffixed("HASH_SUFFIX", 1),
         UniqueBaseNames \cup suffixed("NUMERIC_SUFFIX", 1) \cup suffixed("NUMERIC_SUFFIX", 2)
             \cup suffixed("HASH_SUFFIX", 1) \cup suffixed("HASH_SUFFIX", 2) }

\* the configurations a generator is constructed with
UniqueConfigs ==
    [collisionResolution : {"NUMERIC_SUFFIX", "HASH_SUFFIX", "ERROR"},
     maxCollisionAttempts : 0..MaxCollisionAttempts,
     validateAwsRules : {TRUE},
     checkReservedPrefixes : {TRUE}]

\* no generateUniqueName call is under way
uniqueNameIdle == IF uniqueName.op = "none" THEN TRUE ELSE uniqueName.pc = "done"

\* new ResourceNameGenerator(config, existingNames)
NewGenerator(config, names) ==
    /\ uniqueNameIdle
    /\ genConfig' = config
    /\ existingNames' = names
    /\ uniqueName' = NoCall
    /\ UNCHANGED <<generated, calls, hashed, previous, helper>>

\* generateUniqueName(baseName, resourceType), up to `let attempt = 0`
GenerateUniqueName(baseName, resourceType) ==
    /\ uniqueNameIdle
    /\ uniqueName' =
           IF exceedsMaximumLength(baseName, resourceType)
           THEN [op |-> "generateUniqueName", pc |-> "done", baseName |-> baseName,
                 resourceType |-> resourceType, candidateName |-> EmptyString, attempt |-> 0,
                 tested |-> <<>>,
                 outcome |-> thrownError("Base name exceeds maximum length", baseName)]
           ELSE [op |-> "generateUniqueName", pc |-> "base", baseName |-> baseName,
                 resourceType |-> resourceType, candidateName |-> baseName, attempt |-> 0,
                 tested |-> <<>>, outcome |-> NoCall]
    /\ UNCHANGED <<generatorVars, hashed, previous, helper>>

\* generateUniqueName: the test of the base name before the loop
CheckBaseName ==
    /\ uniqueName.op = "generateUniqueName" /\ uniqueName.pc = "base"
    /\ uniqueName' =
           LET tested == Append(uniqueName.tested, uniqueName.candidateName)
           IN IF uniqueAndValid(uniqueName.candidateName, uniqueName.resourceType, existingNames)
              THEN [uniqueName EXCEPT !.pc = "done", !.tested = tested,
                                      !.outcome = returnedName(uniqueName.candidateName)]
              ELSE [uniqueName EXCEPT !.pc = "loop", !.tested = tested]
    /\ UNCHANGED <<generatorVars, hashed, previous, helper>>

\* generateUniqueName: the loop test and one pass of the loop body, or the throw after it
CollisionAttempt ==
    /\ uniqueName.op = "generateUniqueName" /\ uniqueName.pc = "loop"
    /\ uniqueName' =
           IF attemptsLeft(uniqueName.attempt, genConfig)
           THEN IF failsOnConflict(genConfig)
                THEN [uniqueName EXCEPT
                         !.pc = "done", !.attempt = @ + 1,
                         !.outcome = thrownError("Naming conflict detected and collision resolution is set to ERROR",
                                                 uniqueName.baseName)]
                ELSE LET candidate == candidateName(uniqueName.baseName,
                                                    uniqueName.attempt + 1, genConfig)
                         tested == Append(uniqueName.tested, candidate)
                     IN IF uniqueAndValid(candidate, uniqueName.resourceType, existingNames)
                        THEN [uniqueName EXCEPT !.pc = "done", !.attempt = @ + 1,
                                                !.candidateName = candidate,
                                                !.tested = tested,
                                                !.outcome = returnedName(candidate)]
                        ELSE [uniqueName EXCEPT !.attempt = @ + 1,
                                                !.candidateName = candidate,
                                                !.tested = tested]
           ELSE [uniqueName EXCEPT
                    !.pc = "done",
                    !.outcome = thrownError("Unable to generate unique name after maxCollisionAttempts attempts",
                                            uniqueName.baseName)]
    /\ hashed' \in
           IF attemptsLeft(uniqueName.attempt, genConfig)
              /\ genConfig.collisionResolution = "HASH_SUFFIX"
           THEN {hashed, [baseName |-> uniqueName.baseName,
                          attempt |-> uniqueName.attempt + 1,
                          candidateName |-> uniqueName'.candidateName,
                          config |-> genConfig]}
           ELSE {hashed}
    /\ UNCHANGED <<generatorVars, previous, helper>>

(***************************************************************************)
(* The private helpers of ResourceNameGenerator, called on their own       *)
(***************************************************************************)
\* the longest name normalizeEcrName is given
MaxEcrNameLength == 4

\* name = name.toLowerCase().replace(...).replace(...).replace(...), applied to the string
\* in hand: first the name given, then the result of the call before
NormalizeEcrName ==
    /\ helper.op = "normalizeEcrName" /\ helper.applied < 2
    /\ helper' = [helper EXCEPT !.applied = @ + 1, !.result = normalizeEcrName(@)]

\* applyNaming(baseName): `let name = baseName` has been done, the rest follows
ApplyNaming ==
    /\ helper.op = "applyNaming" /\ helper.applied = 0
    /\ helper' = [helper EXCEPT
                     !.applied = 1,
                     !.result = generatorApplyNaming(helper.baseName, helper.stage,
                                                     helper.namingConvention)]

(***************************************************************************)
(* Specifications: one per component, the other components idle            *)
(***************************************************************************)
ResolverIdle ==
    /\ environmentConfigs = mapOf(<<>>)
    /\ resolved = NoCall
    /\ flat = NoCall
    /\ detailed = NoCall

SimpleIdle ==
    /\ ENVIRONMENT_CONFIGS = <<>>
    /\ simple = NoCall

GeneratorIdle ==
    /\ genConfig = NoCall
    /\ existingNames = {}
    /\ generated = NoCall
    /\ calls = 0

\* ConfigurationResolver
Init == InitResolver /\ SimpleIdle /\ GeneratorIdle /\ uniqueName = NoCall /\ hashed = NoCall /\ previous = NoCall /\ helper = NoCall

Next ==
    \/ \E stage \in Stages :
           ResolveConfiguration(stage) /\ UNCHANGED <<simpleVars, generatorVars, uniqueName, hashed, previous, helper>>
    \/ ValidateConfiguration /\ UNCHANGED <<simpleVars, generatorVars, uniqueName, hashed, previous, helper>>
    \/ ValidateConfigurationDetailed /\ UNCHANGED <<simpleVars, generatorVars, uniqueName, hashed, previous, helper>>

Spec == Init /\ [][Next]_vars

\* the simplified resolver
InitSimpleResolver == InitSimple /\ ResolverIdle /\ GeneratorIdle /\ uniqueName = NoCall /\ hashed = NoCall /\ previous = NoCall /\ helper = NoCall

NextSimple ==
    \/ \E stage \in Stages \cup {<<"g","a","m","m","a">>} :
           SimpleResolveConfiguration(stage) /\ UNCHANGED <<resolverVars, generatorVars, uniqueName, hashed, previous, helper>>
    \/ \E stage \in Stages \cup {<<"g","a","m","m","a">>} :
           GetEnvironmentConfigOrThrow(stage) /\ UNCHANGED <<resolverVars, generatorVars, uniqueName, hashed, previous, helper>>

SpecSimple == InitSimpleResolver /\ [][NextSimple]_vars

\* ResourceNameGenerator
InitNameGenerator == InitGenerator /\ ResolverIdle /\ SimpleIdle /\ uniqueName = NoCall /\ hashed = NoCall /\ previous = NoCall /\ helper = NoCall

NextGen ==
    \/ \E context \in Contexts :
           GenerateResourceNames(context) /\ UNCHANGED <<resolverVars, simpleVars, uniqueName, hashed, previous, helper>>
    \/ \E names \in ExistingNameSets \ {{}} :
           AddExistingNames(names) /\ UNCHANGED <<resolverVars, simpleVars, uniqueName, hashed, previous, helper>>
    \/ ClearExistingNames /\ UNCHANGED <<resolverVars, simpleVars, uniqueName, hashed, previous, helper>>

SpecGen == InitNameGenerator /\ [][NextGen]_vars

\* ResourceNameGenerator, the outcome of each call kept when the next call is made
NextRegenerate ==
    \/ \E context \in RegenerateContexts :
           /\ GenerateResourceNames(context)
           /\ previous' = generated
           /\ UNCHANGED <<resolverVars, simpleVars, uniqueName, hashed, helper>>
    \/ \E names \in ExistingNameSets \ {{}} :
           AddExistingNames(names) /\ UNCHANGED <<resolverVars, simpleVars, uniqueName, hashed, previous, helper>>
    \/ ClearExistingNames /\ UNCHANGED <<resolverVars, simpleVars, uniqueName, hashed, previous, helper>>

SpecRegenerate == InitNameGenerator /\ [][NextRegenerate]_vars

\* ResourceNameGenerator.generateUniqueName, called on generators of every configuration
InitUnique ==
    /\ defaultConfig = NoCall
    /\ ResolverIdle
    /\ SimpleIdle
    /\ genConfig \in UniqueConfigs
    /\ existingNames \in UniqueExistingSets
    /\ generated = NoCall
    /\ calls = 0
    /\ uniqueName = NoCall /\ hashed = NoCall /\ previous = NoCall /\ helper = NoCall

NextUnique ==
    \/ \E config \in UniqueConfigs, names \in UniqueExistingSets :
           NewGenerator(config, names) /\ UNCHANGED <<resolverVars, simpleVars>>
    \/ \E baseName \in UniqueBaseNames,
          resourceType \in {"serviceName", "albName", "ecrRepositoryName"} :
           GenerateUniqueName(baseName, resourceType) /\ UNCHANGED <<resolverVars, simpleVars>>
    \/ CheckBaseName /\ UNCHANGED <<resolverVars, simpleVars>>
    \/ CollisionAttempt /\ UNCHANGED <<resolverVars, simpleVars>>

SpecUnique == InitUnique /\ [][NextUnique]_vars

\* normalizeEcrName on every name of up to MaxEcrNameLength characters over letters of
\* both cases, a digit, the special characters, '/', '#' and ' '; applyNaming on empty,
\* blank and non-blank stages under every convention
InitHelpers ==
    /\ defaultConfig = NoCall
    /\ ResolverIdle
    /\ SimpleIdle
    /\ GeneratorIdle
    /\ uniqueName = NoCall /\ hashed = NoCall /\ previous = NoCall
    /\ helper \in
           {[op |-> "normalizeEcrName", name |-> name, applied |-> 0, result |-> name] :
               name \in UNION {[1..n -> {"a", "A", "1", ".", "-", "_", "/", "#", " "}] :
                                  n \in 0..MaxEcrNameLength}}
           \cup
           {[op |-> "applyNaming", baseName |-> baseName, stage |-> stage,
             namingConvention |-> convention(prefix, suffix, separator),
             applied |-> 0, result |-> baseName] :
               baseName \in {svc, EmptyString},
               stage \in GeneratorStages \cup {EmptyString, <<" ">>, <<" ", "q", "a">>, prod},
               prefix \in BOOLEAN, suffix \in BOOLEAN,
               separator \in {hyphen, <<"_">>, EmptyString}}

NextHelpers ==
    \/ NormalizeEcrName /\ UNCHANGED <<resolverVars, simpleVars, generatorVars, uniqueName, hashed, previous>>
    \/ ApplyNaming /\ UNCHANGED <<resolverVars, simpleVars, generatorVars, uniqueName, hashed, previous>>

SpecHelpers == InitHelpers /\ [][NextHelpers]_vars

\* a ConfigurationResolver and a ResourceNameGenerator given the same application
\* configuration, their calls interleaved
InitCalls ==
    /\ InitGenerator
    /\ environmentConfigs = mapOf(<<betaOverrides, prodBuildCommands>>)
    /\ resolved = NoCall /\ flat = NoCall /\ detailed = NoCall
    /\ SimpleIdle
    /\ uniqueName = NoCall /\ hashed = NoCall /\ previous = NoCall /\ helper = NoCall

NextCalls ==
    \/ \E stage \in {beta, prod} :
           /\ ResolveConfiguration(stage)
           /\ helper' = NoCall
           /\ UNCHANGED <<simpleVars, generatorVars, uniqueName, hashed, previous>>
    \/ \E context \in RegenerateContexts :
           /\ GenerateResourceNames(context)
           /\ helper' = NoCall
           /\ UNCHANGED <<resolverVars, simpleVars, uniqueName, hashed, previous>>
    \/ \E i \in DOMAIN NameKeys :
           /\ ValidateSingleResourceName(NameKeys[i])
           /\ UNCHANGED <<resolverVars, simpleVars, uniqueName, hashed, previous>>

SpecCalls == InitCalls /\ [][NextCalls]_vars

(***************************************************************************)
(* Properties of ConfigurationResolver.resolveConfiguration                *)
(***************************************************************************)
\* resolveConfiguration has been called with a stage that has no entry in the override table
resolvedWithoutEntry ==
    /\ resolved.op = "resolveConfiguration"
    /\ resolved.stage \notin DOMAIN environmentConfigs

\* the nine names of a configuration under the default convention: base identifier + '-' + stage
suffixedNames(config, stage) ==
    [ecrRepositoryName |-> config.ecrRepositoryName \o <<"-">> \o stage,
     clusterName |-> config.applicationName \o <<"-">> \o config.clusterNameSuffix
                     \o <<"-">> \o stage,
     serviceName |-> config.serviceName \o <<"-">> \o stage,
     taskDefinitionFamily |-> config.taskDefinitionFamily \o <<"-">> \o stage,
     albName |-> config.albName \o <<"-">> \o stage,
     targetGroupName |-> config.targetGroupName \o <<"-">> \o stage,
     logGroupName |-> <<"/", "a", "w", "s", "/", "e", "c", "s", "/">>
                      \o config.applicationName \o <<"-">> \o stage,
     albSecurityGroupName |-> config.applicationName
                              \o <<"-", "a", "l", "b", "-", "s", "g", "-">> \o stage,
     ecsSecurityGroupName |-> config.applicationName
                              \o <<"-", "e", "c", "s", "-", "s", "g", "-">> \o stage]

\* what the call returns is the base configuration, the stage and the suffixed names
returnsBaseWithSuffixedNames ==
    /\ DOMAIN resolved.value = DOMAIN defaultConfig \cup {"resolvedStage", "resourceNames"}
    /\ \A field \in DOMAIN defaultConfig : resolved.value[field] = defaultConfig[field]
    /\ resolved.value.resolvedStage = resolved.stage
    /\ resolved.value.resourceNames = suffixedNames(defaultConfig, resolved.stage)

\* a base configuration that satisfies the BaseConfiguration invariant and every validation rule
\* on base identifiers
validBase ==
    /\ \A field \in {"applicationName", "sourceDirectory", "ecrRepositoryName", "serviceName",
                     "clusterNameSuffix", "taskDefinitionFamily", "albName", "targetGroupName"} :
           Len(trim(defaultConfig[field])) > 0
    /\ \A field \in {"ecrRepositoryName", "serviceName", "taskDefinitionFamily", "albName",
                     "targetGroupName"} : GENERAL_PATTERN(defaultConfig[field])
    /\ defaultConfig.containerPort.k = "int"
    /\ defaultConfig.containerPort.v \in 1..65535
    /\ startsWith(defaultConfig.healthCheckPath, <<"/">>)
    /\ \A key \in DOMAIN defaultConfig.dockerBuildArgs :
           defaultConfig.dockerBuildArgs[key].typeof = "string"

\* C1 as stated: for every valid base configuration and every stage without an entry in the
\* override table, resolveConfiguration does not fail, warns, and returns the base
\* configuration with resolvedStage = stage and the names suffixed with '-' + stage.
C1_AsStated ==
    (resolvedWithoutEntry /\ validBase) =>
        /\ ~resolved.threw
        /\ resolved.warned
        /\ returnsBaseWithSuffixedNames

\* C1, amended: for every base configuration and every non-empty stage without an entry in
\* the override table, resolveConfiguration warns, fails exactly when validation of the
\* assembled configuration reports an error, and otherwise returns the base configuration
\* with resolvedStage = stage and the names suffixed with '-' + stage.
C1_UnknownStageFallsBackToBase ==
    (resolvedWithoutEntry /\ resolved.stage # <<>>) =>
        /\ resolved.warned
        /\ resolved.threw <=> Len(resolved.validation.errors) > 0
        /\ ~resolved.threw => returnsBaseWithSuffixedNames

\* a call for the unknown stage 'qa' has returned, with a warning
C1_Witness ==
    /\ resolvedWithoutEntry
    /\ resolved.stage = <<"q", "a">>
    /\ resolved.warned
    /\ ~resolved.threw
    /\ resolved.value.resourceNames.serviceName
           = <<"s", "v", "c", "-", "s", "e", "r", "v", "i", "c", "e", "-", "q", "a">>
\* resolveConfiguration has been called with a stage that has an entry in the override table
resolvedWithEntry ==
    /\ resolved.op = "resolveConfiguration"
    /\ resolved.stage \in DOMAIN environmentConfigs

\* the entry of the override table for the stage of the last call
entry == environmentConfigs[resolved.stage]
applicationOverrides ==
    IF "applicationOverrides" \in DOMAIN entry THEN entry.applicationOverrides ELSE <<>>
buildOverrides == IF "buildOverrides" \in DOMAIN entry THEN entry.buildOverrides ELSE <<>>

\* a field of the base configuration as it stands after applicationOverrides
afterApplicationOverrides(field) ==
    IF field \in DOMAIN applicationOverrides THEN applicationOverrides[field]
    ELSE defaultConfig[field]

\* the fields no build override touches follow applicationOverrides, else the base
applicationOverridesReplace ==
    \A field \in DOMAIN defaultConfig :
        \/ field \in DOMAIN buildOverrides
        \/ resolved.assembled[field] = afterApplicationOverrides(field)

\* buildOverrides.buildCommands, if present, replaces the list
buildCommandsReplace ==
    "buildCommands" \in DOMAIN buildOverrides =>
        resolved.assembled.buildCommands = buildOverrides.buildCommands

\* buildOverrides.dockerBuildArgs, if present, is merged key by key into a mapping
dockerBuildArgsMergeInto(mapping) ==
    "dockerBuildArgs" \in DOMAIN buildOverrides =>
        LET override == buildOverrides.dockerBuildArgs
            result == resolved.assembled.dockerBuildArgs
        IN /\ DOMAIN result = DOMAIN mapping \cup DOMAIN override
           /\ \A key \in DOMAIN override : result[key] = override[key]
           /\ \A key \in DOMAIN mapping \ DOMAIN override : result[key] = mapping[key]

\* C3 as stated: applicationOverrides fields replace the base fields, absent ones keep the
\* base value; buildOverrides.buildCommands replaces the list; buildOverrides.dockerBuildArgs
\* is merged key by key into the base mapping (union of keys, override wins, other base keys
\* keep their base value).
C3_AsStated ==
    resolvedWithEntry =>
        /\ applicationOverridesReplace
        /\ buildCommandsReplace
        /\ dockerBuildArgsMergeInto(defaultConfig.dockerBuildArgs)

\* C3, amended: as stated, except that buildOverrides.dockerBuildArgs is merged key by key
\* into the mapping as it stands after applicationOverrides (the one applicationOverrides
\* gives when it has a dockerBuildArgs field, else the base mapping).
C3_MergeRule ==
    resolvedWithEntry =>
        /\ applicationOverridesReplace
        /\ buildCommandsReplace
        /\ dockerBuildArgsMergeInto(afterApplicationOverrides("dockerBuildArgs"))

\* the scenario: base {B:'2'} and override {A:'1'} have been merged to {A:'1', B:'2'}, and
\* the overridden port has replaced the base port
C3_Witness ==
    /\ resolvedWithEntry
    /\ defaultConfig.dockerBuildArgs = ("B" :> [typeof |-> "string", v |-> "2"])
    /\ buildOverrides = [dockerBuildArgs |-> ("A" :> [typeof |-> "string", v |-> "1"])]
    /\ resolved.value # undefined
    /\ resolved.value.dockerBuildArgs = ("A" :> [typeof |-> "string", v |-> "1"]
                                         @@ "B" :> [typeof |-> "string", v |-> "2"])
    /\ resolved.value.containerPort = [k |-> "int", v |-> 3001]
    /\ defaultConfig.containerPort # [k |-> "int", v |-> 3001]

\* the naming convention of the stage of the last call: the entry's, else the default
conventionOfStage ==
    IF resolved.stage \in DOMAIN environmentConfigs /\ "namingConvention" \in DOMAIN entry
    THEN entry.namingConvention
    ELSE [useStagePrefix |-> FALSE, useStageSuffix |-> TRUE, separator |-> <<"-">>]

\* N(x) = [stage + separator if useStagePrefix] + x + [separator + stage if useStageSuffix]
N(x) ==
    (IF conventionOfStage.useStagePrefix
     THEN resolved.stage \o conventionOfStage.separator ELSE <<>>)
    \o x \o
    (IF conventionOfStage.useStageSuffix
     THEN conventionOfStage.separator \o resolved.stage ELSE <<>>)

\* C4: each of the nine names resolveConfiguration returns is computed from the merged
\* configuration, the stage and the stage's naming convention: registry = N(ecrRepositoryName),
\* cluster = N(applicationName-clusterNameSuffix), service = N(serviceName), task family =
\* N(taskDefinitionFamily), load balancer = N(albName), target group = N(targetGroupName),
\* log group = '/aws/ecs/' + N(applicationName), security groups = N(applicationName-alb-sg)
\* and N(applicationName-ecs-sg).
C4_NamesFromMergedConfiguration ==
    (resolved.op = "resolveConfiguration" /\ resolved.value # undefined) =>
        LET merged == resolved.value
            names == merged.resourceNames
        IN /\ DOMAIN names = {"ecrRepositoryName", "clusterName", "serviceName",
                              "taskDefinitionFamily", "albName", "targetGroupName",
                              "logGroupName", "albSecurityGroupName", "ecsSecurityGroupName"}
           /\ names.ecrRepositoryName = N(merged.ecrRepositoryName)
           /\ names.clusterName
                  = N(merged.applicationName \o <<"-">> \o merged.clusterNameSuffix)
           /\ names.serviceName = N(merged.serviceName)
           /\ names.taskDefinitionFamily = N(merged.taskDefinitionFamily)
           /\ names.albName = N(merged.albName)
           /\ names.targetGroupName = N(merged.targetGroupName)
           /\ names.logGroupName
                  = <<"/", "a", "w", "s", "/", "e", "c", "s", "/">> \o N(merged.applicationName)
           /\ names.albSecurityGroupName
                  = N(merged.applicationName \o <<"-", "a", "l", "b", "-", "s", "g">>)
           /\ names.ecsSecurityGroupName
                  = N(merged.applicationName \o <<"-", "e", "c", "s", "-", "s", "g">>)

\* a returned configuration whose service and application names were overridden: its names
\* are built from the overriding 'api', not from the base 'svc-service' and 'svc'
C4_Witness ==
    /\ resolvedWithEntry
    /\ resolved.value # undefined
    /\ defaultConfig.serviceName = <<"s", "v", "c", "-", "s", "e", "r", "v", "i", "c", "e">>
    /\ defaultConfig.applicationName = <<"s", "v", "c">>
    /\ resolved.value.resourceNames.serviceName = <<"a", "p", "i", "-", "b", "e", "t", "a">>
    /\ resolved.value.resourceNames.logGroupName
           = <<"/", "a", "w", "s", "/", "e", "c", "s", "/", "a", "p", "i", "-", "b", "e", "t", "a">>
\* resolveConfiguration has assembled a configuration and validated it
resolvedAndValidated ==
    /\ resolved.op = "resolveConfiguration"
    /\ resolved.assembled # undefined

\* C5: resolveConfiguration returns a configuration if and only if validation of the assembled
\* result reports zero errors; with at least one error it fails with the aggregate
\* 'Configuration validation failed' error and returns nothing; warnings never make it fail;
\* every returned configuration passes validateConfiguration with no errors.
C5_ReturnsIffNoErrors ==
    /\ resolvedAndValidated =>
        /\ resolved.value # undefined <=> Len(resolved.validation.errors) = 0
        /\ Len(resolved.validation.errors) > 0 =>
               /\ resolved.threw
               /\ resolved.error.message = "Configuration validation failed for stage"
               /\ resolved.value = undefined
        /\ Len(resolved.validation.errors) = 0 =>
               /\ ~resolved.threw
               /\ resolved.value = resolved.assembled
    /\ (resolvedAndValidated /\ resolved.value # undefined
        /\ flat.op = "validateConfiguration") =>
        /\ flat.config = resolved.value
        /\ flat.result.isValid
        /\ flat.result.errors = <<>>

\* a configuration was returned although validation gave a warning, and validating it again
\* reports it valid
C5_Witness ==
    /\ resolvedAndValidated
    /\ resolved.value # undefined
    /\ Len(resolved.validation.warnings) > 0
    /\ flat.op = "validateConfiguration"
    /\ flat.result.isValid
(***************************************************************************)
(* Properties of the validation entry points                               *)
(***************************************************************************)
\* the maximum length validation enforces on a generated name
enforcedMaximum(name) ==
    CASE name = "ecrRepositoryName" -> 256
      [] name = "serviceName" -> 255
      [] name = "taskDefinitionFamily" -> 255
      [] name = "albName" -> 32
      [] name = "targetGroupName" -> 32

\* the rules a configuration violates, one <<fixed text of the error, field>> per violation
violations(config) ==
    {<<"Required field is missing or empty", field>> :
        field \in {f \in {"applicationName", "sourceDirectory", "ecrRepositoryName",
                          "serviceName", "taskDefinitionFamily", "albName",
                          "targetGroupName"} : Len(trim(config[f])) = 0}}
    \cup
    {<<"Field contains invalid characters for AWS resources", field>> :
        field \in {f \in {"ecrRepositoryName", "serviceName", "taskDefinitionFamily",
                          "albName", "targetGroupName"} :
                      Len(config[f]) > 0 /\ ~GENERAL_PATTERN(config[f])}}
    \cup
    {<<"Generated name exceeds AWS limit", name>> :
        name \in {n \in {"ecrRepositoryName", "serviceName", "taskDefinitionFamily",
                         "albName", "targetGroupName"} :
                     Len(config.resourceNames[n]) > enforcedMaximum(n)}}
    \cup
    {<<"Container port must be an integer between 1 and 65535, got", "containerPort">> :
        x \in {p \in {config.containerPort} :
                  \/ p.k = "frac"
                  \/ p.k = "int" /\ p.v \notin 1..65535}}
    \cup
    {<<"Health check path must start with '/', got", "healthCheckPath">> :
        x \in {h \in {config.healthCheckPath} : Len(h) > 0 /\ h[1] # "/"}}
    \cup
    {<<"Docker build arg must be a string, got", key>> :
        key \in {k \in DOMAIN config.dockerBuildArgs :
                    config.dockerBuildArgs[k].typeof # "string"}}

\* an error list holds exactly the violations of a configuration, one error for each
collectsAll(errors, config) ==
    /\ Len(errors) = Cardinality(violations(config))
    /\ {<<errors[i].text, errors[i].field>> : i \in DOMAIN errors} = violations(config)

bothValidated ==
    /\ flat.op = "validateConfiguration"
    /\ detailed.op = "validateConfigurationDetailed"
    /\ flat.config = detailed.config

\* C7 as stated: validateConfiguration and validateConfigurationDetailed apply the same rule
\* set: for every resolved configuration they return the same isValid and the same number
\* of errors.
C7_AsStated ==
    bothValidated =>
        /\ flat.result.isValid = detailed.result.isValid
        /\ Len(flat.result.errors) = Len(detailed.result.errors)

\* the two entry points disagree on a configuration whose only violation is a generated
\* load-balancer name over 32 characters: the flat one rejects it, the detailed one passes it
C7_Divergence ==
    /\ bothValidated
    /\ violations(flat.config) = {<<"Generated name exceeds AWS limit", "albName">>}
    /\ ~flat.result.isValid
    /\ detailed.result.isValid
    /\ detailed.result.errors = <<>>
(***************************************************************************)
(* Properties of the resource names resolveConfiguration returns           *)
(***************************************************************************)
\* resolveConfiguration has returned a configuration
returned == resolved.op = "resolveConfiguration" /\ resolved.value # undefined

\* the resource class of each of the nine names
classOf(name) ==
    IF name \in {"albSecurityGroupName", "ecsSecurityGroupName"} THEN "securityGroupName"
    ELSE name

\* the naming pattern of the class of a name holds
matchesClassPattern(name, value) ==
    CASE name = "ecrRepositoryName" -> ECR_PATTERN(value)
      [] name = "logGroupName" -> LOG_GROUP_PATTERN(value)
      [] OTHER -> GENERAL_PATTERN(value)

\* the ResourceNameSet invariant: nine pairwise distinct names, each matching the pattern of
\* its class and within the maximum length of its class
resourceNameSetInvariant(names) ==
    /\ \A a, b \in DOMAIN names : a # b => names[a] # names[b]
    /\ \A a \in DOMAIN names : matchesClassPattern(a, names[a])
    /\ \A a \in DOMAIN names : Len(names[a]) <= LENGTH_LIMITS(classOf(a))

\* C8 as stated: the names of every configuration resolveConfiguration returns satisfy the
\* ResourceNameSet invariant (pairwise distinct, pattern of the class, maximum length of the
\* class).
C8_AsStated == returned => resourceNameSetInvariant(resolved.value.resourceNames)

\* C8, amended: in every configuration resolveConfiguration returns, the registry, service,
\* task-family, load-balancer and target-group names are within the maximum length of their
\* class (256, 255, 255, 32, 32); equal names and names outside the class pattern are returned.
C8_ReturnedNamesWithinEnforcedLengths ==
    returned =>
        \A name \in {"ecrRepositoryName", "serviceName", "taskDefinitionFamily", "albName",
                     "targetGroupName"} :
            /\ Len(resolved.value.resourceNames[name]) <= LENGTH_LIMITS(classOf(name))
            /\ LENGTH_LIMITS(classOf(name)) = enforcedMaximum(name)

\* a configuration was returned for a base whose load-balancer name is the long one: the
\* generated name still fits the 32 characters
C8_Witness ==
    /\ returned
    /\ Len(defaultConfig.albName) = LongNameLength
    /\ Len(resolved.value.resourceNames.albName) > LongNameLength
    /\ Len(resolved.value.resourceNames.albName) <= 32
(***************************************************************************)
(* Properties of the simplified resolver                                   *)
(***************************************************************************)
\* the stage of the last call has an environment configuration
stageConfigured == \E i \in DOMAIN ENVIRONMENT_CONFIGS : ENVIRONMENT_CONFIGS[i].stage = simple.stage

\* the first entry of the table for the stage of the last call
configured ==
    ENVIRONMENT_CONFIGS[CHOOSE i \in DOMAIN ENVIRONMENT_CONFIGS :
        /\ ENVIRONMENT_CONFIGS[i].stage = simple.stage
        /\ \A j \in 1..(i - 1) : ENVIRONMENT_CONFIGS[j].stage # simple.stage]

\* a field of the base configuration after the entry's overrides
mergedField(field) ==
    LET application == IF "applicationOverrides" \in DOMAIN configured
                       THEN configured.applicationOverrides ELSE <<>>
        build == IF "buildOverrides" \in DOMAIN configured
                 THEN configured.buildOverrides ELSE <<>>
        prior == IF field \in DOMAIN application THEN application[field]
                 ELSE simple.baseConfig[field]
    IN IF field = "buildCommands" /\ field \in DOMAIN build THEN build[field]
       ELSE IF field = "dockerBuildArgs" /\ field \in DOMAIN build
            THEN [key \in DOMAIN prior \cup DOMAIN build[field] |->
                     IF key \in DOMAIN build[field] THEN build[field][key] ELSE prior[key]]
            ELSE prior

singleNameErrors ==
    {"Base name exceeds maximum length",
     "Naming conflict detected and collision resolution is set to ERROR",
     "Unable to generate unique name after maxCollisionAttempts attempts"}

\* C9: every ResourceNameSet generateResourceNames returns has nine pairwise distinct names,
\* each matching the pattern of its class and within the maximum length of its class, so
\* that validateResourceNames reports it valid; when the nine names it generated do not
\* satisfy this, the call fails with 'Resource name validation failed' and returns no set
\* (when one of the names cannot be generated, the call has failed before with that name's
\* error).
C9_GeneratedSetSatisfiesInvariant ==
    generated.op = "generateResourceNames" =>
        /\ ~generated.threw =>
               /\ DOMAIN generated.value = Range(NameKeys)
               /\ resourceNameSetInvariant(generated.value)
               /\ validateResourceNames(generated.value, genConfig).isValid
               /\ generated.value = generated.resourceNames
        /\ generated.threw => generated.value = undefined
        /\ (generated.resourceNames # undefined
            /\ ~resourceNameSetInvariant(generated.resourceNames)) =>
               /\ generated.threw
               /\ generated.error.message = "Resource name validation failed"
               /\ Len(generated.error.joined) > 0
        /\ (generated.threw /\ generated.resourceNames = undefined) =>
               generated.error.message \in singleNameErrors

\* a call returned a set in which a collision with an existing name was resolved
C9_WitnessReturned ==
    /\ generated.op = "generateResourceNames"
    /\ ~generated.threw
    /\ generated.context.stage = <<"b", "e", "t", "a">>
    /\ Len(generated.value.serviceName) > Len(generated.context.applicationConfig.serviceName) + 5
    /\ Cardinality({generated.value[key] : key \in DOMAIN generated.value}) = 9

\* the scenario of the specification: the 'svc' configuration, stage 'beta', the default
\* convention, 'svc-service-beta' among the existing names, strategy NUMERIC_SUFFIX
collisionScenario ==
    /\ generated.op = "generateResourceNames"
    /\ generated.context.applicationConfig.applicationName = <<"s", "v", "c">>
    /\ generated.context.applicationConfig.ecrRepositoryName = <<"s", "v", "c">>
    /\ generated.context.applicationConfig.serviceName
           = <<"s", "v", "c", "-", "s", "e", "r", "v", "i", "c", "e">>
    /\ generated.context.applicationConfig.clusterNameSuffix
           = <<"c", "l", "u", "s", "t", "e", "r">>
    /\ generated.context.applicationConfig.taskDefinitionFamily = <<"s", "v", "c">>
    /\ generated.context.applicationConfig.albName = <<"s", "v", "c", "-", "a", "l", "b">>
    /\ generated.context.applicationConfig.targetGroupName = <<"s", "v", "c", "-", "t", "g">>
    /\ generated.context.stage = <<"b", "e", "t", "a">>
    /\ generated.context.environmentConfig = undefined
    /\ generated.consulted
           = {<<"s", "v", "c", "-", "s", "e", "r", "v", "i", "c", "e", "-", "b", "e", "t", "a">>}
    /\ genConfig.collisionResolution = "NUMERIC_SUFFIX"

\* C10 as stated: in the scenario, name generation succeeds and yields
\* serviceName = 'svc-service-beta-1'.
C10_AsStated ==
    collisionScenario =>
        /\ ~generated.threw
        /\ generated.value.serviceName
               = <<"s", "v", "c", "-", "s", "e", "r", "v", "i", "c", "e", "-", "b", "e", "t",
                   "a", "-", "1">>

\* in the scenario the service name became 'svc-service-beta-1', but the call failed: the
\* registry and the task family were both named 'svc-beta'
C10_ScenarioFails ==
    /\ collisionScenario
    /\ generated.threw
    /\ generated.error.message = "Resource name validation failed"
    /\ generated.resourceNames.serviceName
           = <<"s", "v", "c", "-", "s", "e", "r", "v", "i", "c", "e", "-", "b", "e", "t",
               "a", "-", "1">>
    /\ generated.resourceNames.ecrRepositoryName = <<"s", "v", "c", "-", "b", "e", "t", "a">>
    /\ generated.resourceNames.taskDefinitionFamily = <<"s", "v", "c", "-", "b", "e", "t", "a">>

(***************************************************************************)
(* Properties of ResourceNameGenerator.generateUniqueName                  *)
(***************************************************************************)
\* a generateUniqueName call has ended, by a return or a throw
uniqueNameDone == uniqueName.op = "generateUniqueName" /\ uniqueName.pc = "done"

\* base + '-' + k for a one-digit k
numbered(base, k) == base \o <<"-">> \o <<DigitSeq[k + 1]>>

\* the name is absent from the existing set and conformant for the class of the call
free(name) ==
    /\ name \notin existingNames
    /\ Len(name) >= 1
    /\ Len(name) <= LENGTH_LIMITS(uniqueName.resourceType)
    /\ IF uniqueName.resourceType = "ecrRepositoryName" THEN ECR_PATTERN(name)
       ELSE GENERAL_PATTERN(name)

\* the candidates base, base-1, ..., base-k in this order
numberedUpTo(base, k) == [i \in 1..(k + 1) |-> IF i = 1 THEN base ELSE numbered(base, i - 1)]

\* C11: a free initial candidate is returned unchanged, after one test; under
\* NUMERIC_SUFFIX a claimed or non-conformant initial candidate is replaced by
\* base + '-' + k for the smallest k in 1..maxCollisionAttempts whose name is free, the
\* candidates base, base-1, ..., base-k having been tested in this order; when no such k
\* exists the call throws
C11_SmallestFreeNumericSuffix ==
    uniqueNameDone =>
        LET base == uniqueName.baseName
            smallest(k) == free(numbered(base, k)) /\ \A j \in 1..(k - 1) : ~free(numbered(base, j))
        IN /\ free(base) =>
                 uniqueName.outcome = returnedName(base) /\ uniqueName.tested = <<base>>
           /\ (~free(base) /\ genConfig.collisionResolution = "NUMERIC_SUFFIX") =>
                 /\ \A k \in 1..genConfig.maxCollisionAttempts :
                        smallest(k) =>
                            /\ uniqueName.outcome = returnedName(numbered(base, k))
                            /\ uniqueName.tested = numberedUpTo(base, k)
                 /\ (\A k \in 1..genConfig.maxCollisionAttempts : ~free(numbered(base, k)))
                        => uniqueName.outcome.threw

\* a call under NUMERIC_SUFFIX has returned base-2, base and base-1 being claimed
C11_WitnessSecondSuffix ==
    /\ uniqueNameDone
    /\ genConfig.collisionResolution = "NUMERIC_SUFFIX"
    /\ {uniqueName.baseName, numbered(uniqueName.baseName, 1)} \subseteq existingNames
    /\ uniqueName.outcome = returnedName(numbered(uniqueName.baseName, 2))

\* the errors generateUniqueName throws for a base name
nameTooLong(base) == thrownError("Base name exceeds maximum length", base)
namingConflict(base) ==
    thrownError("Naming conflict detected and collision resolution is set to ERROR", base)
unresolvableCollision(base) ==
    thrownError("Unable to generate unique name after maxCollisionAttempts attempts", base)

\* C12: a generateUniqueName call whose base name is longer than the maximum length of its
\* resource class has thrown 'exceeds maximum length' at once, under every strategy and
\* existing set: no candidate was tested and no suffix candidate was built
C12_TooLongFailsBeforeAnyCandidate ==
    (/\ uniqueName.op = "generateUniqueName"
     /\ Len(uniqueName.baseName) > LENGTH_LIMITS(uniqueName.resourceType))
    => /\ uniqueName.pc = "done"
       /\ uniqueName.outcome = nameTooLong(uniqueName.baseName)
       /\ uniqueName.tested = <<>>
       /\ uniqueName.attempt = 0
       /\ uniqueName.candidateName = EmptyString

\* a load-balancer name of more than 32 characters, claimed already, was rejected under a
\* suffix strategy with attempts left
C12_WitnessLongLoadBalancerName ==
    /\ uniqueNameDone
    /\ uniqueName.resourceType = "albName"
    /\ Len(uniqueName.baseName) > 32
    /\ uniqueName.baseName \in existingNames
    /\ genConfig.collisionResolution = "NUMERIC_SUFFIX"
    /\ genConfig.maxCollisionAttempts >= 1
    /\ uniqueName.outcome = nameTooLong(uniqueName.baseName)

\* C13 as stated: under ERROR a call whose base name is in the existing set has thrown
\* 'Naming conflict detected' without building or testing another candidate, whatever
\* maxCollisionAttempts is, and that error is thrown only for a base name in the existing set
C13_AsStated ==
    uniqueNameDone =>
        /\ (genConfig.collisionResolution = "ERROR" /\ uniqueName.baseName \in existingNames)
               => /\ uniqueName.outcome = namingConflict(uniqueName.baseName)
                  /\ uniqueName.tested = <<uniqueName.baseName>>
        /\ uniqueName.outcome = namingConflict(uniqueName.baseName)
               => uniqueName.baseName \in existingNames

\* C13: the call throws 'Naming conflict detected' exactly when the strategy is ERROR,
\* maxCollisionAttempts is at least 1, the base name is within the maximum length of its
\* class and it is claimed or non-conformant; then the base name is the only candidate that
\* was built or tested. (A base name over the maximum length throws 'exceeds maximum
\* length', and with maxCollisionAttempts = 0 the loop is not entered and the call throws
\* 'Unable to generate unique name'.)
C13_ConflictUnderErrorStrategy ==
    uniqueNameDone =>
        LET base == uniqueName.baseName
        IN /\ uniqueName.outcome = namingConflict(base)
                  <=> /\ genConfig.collisionResolution = "ERROR"
                      /\ genConfig.maxCollisionAttempts >= 1
                      /\ Len(base) <= LENGTH_LIMITS(uniqueName.resourceType)
                      /\ ~free(base)
           /\ uniqueName.outcome = namingConflict(base)
                  => uniqueName.tested = <<base>> /\ uniqueName.candidateName = base

\* under ERROR a claimed base name was refused with 'Naming conflict detected'
C13_WitnessClaimedUnderError ==
    /\ uniqueNameDone
    /\ genConfig.collisionResolution = "ERROR"
    /\ genConfig.maxCollisionAttempts = MaxCollisionAttempts
    /\ uniqueName.baseName \in existingNames
    /\ uniqueName.outcome = namingConflict(uniqueName.baseName)
    /\ uniqueName.tested = <<uniqueName.baseName>>

\* a generateUniqueName call is under way
uniqueNameRunning == uniqueName.op = "generateUniqueName" /\ uniqueName.pc # "done"

\* the initial candidate and every suffix candidate of the configured strategy are claimed
\* or non-conformant (strategy ERROR has no suffix candidates)
noCandidateFree ==
    /\ ~free(uniqueName.baseName)
    /\ genConfig.collisionResolution # "ERROR" =>
           \A k \in 1..genConfig.maxCollisionAttempts :
               ~free(candidateName(uniqueName.baseName, k, genConfig))

\* C14 as stated: at most maxCollisionAttempts suffix candidates are tested, the call
\* ends in a return or in 'Unable to generate unique name', and it ends in that error
\* exactly when the initial candidate and all suffix candidates are claimed or non-conformant
C14_AsStated ==
    uniqueName.op = "generateUniqueName" =>
        /\ Len(uniqueName.tested) <= 1 + genConfig.maxCollisionAttempts
        /\ uniqueName.pc = "done" =>
               /\ \/ ~uniqueName.outcome.threw
                  \/ uniqueName.outcome = unresolvableCollision(uniqueName.baseName)
               /\ uniqueName.outcome = unresolvableCollision(uniqueName.baseName)
                      <=> noCandidateFree

\* the bound on a call and the outcomes it ends in
boundedCollisionResolution ==
    uniqueName.op = "generateUniqueName" =>
        LET base == uniqueName.baseName
        IN /\ uniqueName.attempt <= genConfig.maxCollisionAttempts
           /\ Len(uniqueName.tested) <= 1 + uniqueName.attempt
           /\ Len(UniqueNameKeys) = 8
           /\ uniqueName.pc = "done" =>
                  /\ \/ ~uniqueName.outcome.threw
                     \/ uniqueName.outcome \in
                            {nameTooLong(base), namingConflict(base), unresolvableCollision(base)}
                  /\ uniqueName.outcome = unresolvableCollision(base)
                         <=> /\ Len(base) <= LENGTH_LIMITS(uniqueName.resourceType)
                             /\ \/ genConfig.collisionResolution # "ERROR"
                                \/ genConfig.maxCollisionAttempts = 0
                             /\ noCandidateFree
                  /\ uniqueName.outcome =
                         generateUniqueName(base, uniqueName.resourceType, existingNames, genConfig)

\* the statements a generateUniqueName call has left at most: 0 once it has ended
stepsLeft(call) ==
    IF call.pc = "done" THEN 0
    ELSE IF call.pc = "base" THEN 2 + genConfig.maxCollisionAttempts
    ELSE 1 + genConfig.maxCollisionAttempts - call.attempt

\* C14: collision resolution terminates. A generateUniqueName call under way is never
\* stuck and each of its steps brings it nearer its end; it makes at most
\* maxCollisionAttempts passes of the loop and tests at most 1 + maxCollisionAttempts
\* candidates (generateResourceNames makes eight such calls); it
\* ends in a return, in 'exceeds maximum length', in 'Naming conflict detected' or in
\* 'Unable to generate unique name'; and it ends in 'Unable to generate unique name'
\* exactly when the base name is within its maximum length, the strategy builds suffix
\* candidates (or maxCollisionAttempts is 0) and the initial candidate and all
\* maxCollisionAttempts suffix candidates are claimed or non-conformant
C14_CollisionResolutionTerminates ==
    /\ []boundedCollisionResolution
    /\ [](uniqueNameRunning => uniqueName.pc \in {"base", "loop"})
    /\ [][uniqueNameRunning => /\ uniqueName'.op = "generateUniqueName"
                                /\ stepsLeft(uniqueName') < stepsLeft(uniqueName)]_vars

\* a call under NUMERIC_SUFFIX has used up all its attempts
C14_WitnessAttemptsExhausted ==
    /\ uniqueNameDone
    /\ genConfig.collisionResolution = "NUMERIC_SUFFIX"
    /\ genConfig.maxCollisionAttempts = MaxCollisionAttempts
    /\ Len(uniqueName.tested) = 1 + MaxCollisionAttempts
    /\ uniqueName.outcome = unresolvableCollision(uniqueName.baseName)

\* the call under way or last made builds hash-suffixed candidates for the base name of the
\* remembered candidate and has reached the remembered attempt
hashedAgain ==
    /\ hashed # NoCall
    /\ uniqueName.op = "generateUniqueName"
    /\ genConfig.collisionResolution = "HASH_SUFFIX"
    /\ uniqueName.baseName = hashed.baseName
    /\ hashed.attempt < Len(uniqueName.tested)

hashSuffixes ==
    IF uniqueName.op = "generateUniqueName" /\ genConfig.collisionResolution = "HASH_SUFFIX"
    THEN {SubSeq(uniqueName.tested[1 + k], Len(uniqueName.baseName) + 2,
                 Len(uniqueName.tested[1 + k])) : k \in 1..(Len(uniqueName.tested) - 1)}
    ELSE {}

\* C16 as stated: every HASH_SUFFIX candidate is the base name, a hyphen and exactly six
\* characters, each in [0-9a-z]
C16_AsStated ==
    /\ \A suffix \in hashSuffixes :
           /\ Len(suffix) = 6
           /\ \A i \in 1..Len(suffix) : \E j \in 1..36 : suffix[i] = (DigitSeq \o LowerSeq)[j]
    /\ hashSuffixes # {} =>
           \A k \in 1..(Len(uniqueName.tested) - 1) :
               SubSeq(uniqueName.tested[1 + k], 1, Len(uniqueName.baseName) + 1)
                   = uniqueName.baseName \o hyphen

\* a call under HASH_SUFFIX returns a name whose digest has fewer than six characters
C16_ShortDigestReturned ==
    /\ uniqueNameDone
    /\ ~uniqueName.outcome.threw
    /\ \E suffix \in hashSuffixes :
           /\ Len(suffix) < 6
           /\ uniqueName.outcome.value = uniqueName.baseName \o hyphen \o suffix

(***************************************************************************)
(* Properties of successive ResourceNameGenerator.generateResourceNames     *)
(* calls                                                                   *)
(***************************************************************************)
\* the last two generateResourceNames calls were made with the same context
sameContextAgain ==
    /\ previous.op = "generateResourceNames"
    /\ generated.context = previous.context

\* C17 as stated: two successive generateResourceNames calls on the same generator with
\* the same context return equal ResourceNameSets
C17_AsStated ==
    sameContextAgain =>
        /\ generated.threw = previous.threw
        /\ generated.value = previous.value

\* C17: two successive generateResourceNames calls on one generator with the same context
\* have the same outcome, equal ResourceNameSets or the same error, when the names they
\* consulted (the generator's existing names with the context's) were the same; when the
\* first call returned and its names are still among the existing names, the second call
\* fails or returns other names for the eight identifiers tested for uniqueness
C17_SameNamesFromSameExistingNames ==
    sameContextAgain =>
        /\ generated.consulted = previous.consulted =>
               /\ generated.threw = previous.threw
               /\ generated.value = previous.value
               /\ generated.error = previous.error
        /\ (~previous.threw /\ previous.existingNames \subseteq generated.consulted) =>
               \/ generated.threw
               \/ \A i \in DOMAIN UniqueNameKeys :
                      generated.value[UniqueNameKeys[i]] # previous.value[UniqueNameKeys[i]]

\* as in the generator's test: a collision of the service name resolved by a hash suffix, the
\* existing names cleared and put back, and the same context resolved again
C17_WitnessRegeneratedAfterClear ==
    /\ sameContextAgain
    /\ generated.consulted = previous.consulted
    /\ ~generated.threw
    /\ genConfig.collisionResolution = "HASH_SUFFIX"
    /\ svcServiceBeta \in generated.consulted
    /\ Len(generated.value.serviceName) > Len(svcServiceBeta)

\* the last generateResourceNames call returned a ResourceNameSet
returnedNames == generated.op = "generateResourceNames" /\ ~generated.threw

\* names that were in the generator's existing-names set before the last call: those
\* consulted that did not come with the call's context
claimedBefore ==
    IF has(generated.context, "existingNames")
    THEN generated.consulted \ generated.context.existingNames
    ELSE generated.consulted

\* C18 as stated: after a successful call all nine returned names are in the existing-names
\* set, and none of the nine was in the existing-names set before the call
C18_AsStated ==
    returnedNames =>
        \A i \in DOMAIN NameKeys :
            /\ generated.value[NameKeys[i]] \in generated.existingNames
            /\ generated.value[NameKeys[i]] \notin claimedBefore

\* what holds of a returned ResourceNameSet and the names consulted
returnedNamesClaimed ==
    returnedNames =>
        /\ \A i \in DOMAIN NameKeys : generated.value[NameKeys[i]] \in generated.existingNames
        /\ \A i \in DOMAIN UniqueNameKeys :
               generated.value[UniqueNameKeys[i]] \notin generated.consulted
        /\ (sameContextAgain /\ ~previous.threw) =>
               generated.value.logGroupName = previous.value.logGroupName

\* C18: after generateResourceNames succeeds, all nine returned names are members of the
\* generator's existing-names set; none of the eight names that go through
\* generateUniqueName (all but logGroupName) was in the existing-names set before the call
\* or among the context's existing names, so none equals one of the eight names an earlier
\* call returned while no clearExistingNames came in between; logGroupName is not tested:
\* a later successful call with the same context returns the same log group name
C18_ReturnedNamesAreClaimed ==
    /\ []returnedNamesClaimed
    /\ [][(calls' = calls + 1 /\ ~generated'.threw) =>
              \A i \in DOMAIN NameKeys : generated'.value[NameKeys[i]] \in existingNames']_vars

\* a second call on the same generator, nothing cleared in between, returned eight fresh
\* names and the log group name of the call before
C18_WitnessLogGroupNameReturnedAgain ==
    /\ returnedNames
    /\ previous.op = "generateResourceNames" /\ ~previous.threw
    /\ previous.existingNames \subseteq generated.consulted
    /\ generated.value.logGroupName = previous.value.logGroupName
    /\ generated.value.logGroupName \in claimedBefore
    /\ generated.value.serviceName # previous.value.serviceName

(***************************************************************************)
(* Properties of the private helpers of ResourceNameGenerator              *)
(***************************************************************************)
\* C19: registry-name normalization is idempotent: for every name x,
\* normalizeEcrName(normalizeEcrName(x)) = normalizeEcrName(x); normalizing what a first
\* call returned gives it back unchanged
C19_NormalizeEcrNameIdempotent ==
    (helper.op = "normalizeEcrName" /\ helper.applied = 2) =>
        helper.result = normalizeEcrName(helper.name)

\* a name with capitals, characters outside the registry's alphabet and runs of special
\* characters at its ends has been normalized twice
C19_WitnessNormalizedTwice ==
    /\ helper.op = "normalizeEcrName" /\ helper.applied = 2
    /\ helper.name = <<"-", "A", "#", ".">>
    /\ helper.result = <<"a">>

\* applyNaming has returned
namingApplied == helper.op = "applyNaming" /\ helper.applied = 1

\* [stage + separator if useStagePrefix] + base + [separator + stage if useStageSuffix]
stageQualified ==
    (IF helper.namingConvention.useStagePrefix
     THEN helper.stage \o helper.namingConvention.separator ELSE <<>>)
    \o helper.baseName \o
    (IF helper.namingConvention.useStageSuffix
     THEN helper.namingConvention.separator \o helper.stage ELSE <<>>)

\* C20 as stated: the base name is returned unchanged when the stage is empty, and the
\* stage-qualified name otherwise
C20_AsStated ==
    namingApplied =>
        helper.result = IF helper.stage = <<>> THEN helper.baseName ELSE stageQualified

\* C20: the generator's applyNaming returns the base name unchanged, for every convention,
\* when the stage is empty or consists of white space only; otherwise it returns
\* [stage + separator if useStagePrefix] + base + [separator + stage if useStageSuffix]
\* with the stage as given (untrimmed), both parts when both flags are set and the base
\* name unchanged when neither is set
C20_ApplyNamingSkipsBlankStage ==
    namingApplied =>
        helper.result = IF \A i \in DOMAIN helper.stage : helper.stage[i] = " "
                        THEN helper.baseName ELSE stageQualified

\* applyNaming was given a stage of white space under a convention with prefix and suffix
C20_WitnessBlankStage ==
    /\ namingApplied
    /\ helper.stage = <<" ", " ">>
    /\ helper.namingConvention.useStagePrefix /\ helper.namingConvention.useStageSuffix
    /\ helper.baseName = <<"s", "v", "c">>
    /\ helper.result = <<"s", "v", "c">>

(***************************************************************************)
(* Properties of the validation rules of ConfigurationResolver             *)
(***************************************************************************)
\* a flat error list holds an error with this fixed text for this field
reports(errors, text, field) ==
    \E i \in DOMAIN errors : errors[i].text = text /\ errors[i].field = field

\* C21 as stated: whenever one of the nine generated names of the assembled configuration
\* is longer than the maximum of its class (256, 255, 32, 512, 255), validation reports a
\* length error for it and resolveConfiguration fails
C21_AsStated ==
    resolvedAndValidated =>
        \A i \in DOMAIN NameKeys :
            Len(resolved.assembled.resourceNames[NameKeys[i]])
                    > LENGTH_LIMITS(classOf(NameKeys[i])) =>
                /\ reports(resolved.validation.errors, "Generated name exceeds AWS limit",
                           NameKeys[i])
                /\ resolved.threw

\* resolveConfiguration returned a configuration whose cluster name is longer than 255
\* characters, validated without an error
C21_LongClusterNameReturned ==
    /\ returned
    /\ Len(resolved.value.resourceNames.clusterName) > 255
    /\ resolved.validation.errors = <<>>
    /\ \A i \in DOMAIN NameKeys :
           NameKeys[i] # "clusterName" =>
               Len(resolved.value.resourceNames[NameKeys[i]])
                   <= LENGTH_LIMITS(classOf(NameKeys[i]))

\* the port errors of a flat error list and of a typed one
flatPortErrors(errors) == {i \in DOMAIN errors : errors[i].field = "containerPort"}
typedPortErrors(errors) == {i \in DOMAIN errors : errors[i].type = "INVALID_PORT"}

\* a port that is given and is not an integer from 1 to 65535
invalidPort(port) == port.k = "frac" \/ (port.k = "int" /\ (port.v < 1 \/ port.v > 65535))

C23_AsStated ==
    /\ flat.op = "validateConfiguration" =>
           /\ reports(flat.result.errors, "Health check path must start with '/', got",
                      "healthCheckPath")
                  <=> ~startsWith(flat.config.healthCheckPath, <<"/">>)
           /\ ~startsWith(flat.config.healthCheckPath, <<"/">>) => ~flat.result.isValid
    /\ detailed.op = "validateConfigurationDetailed" =>
           /\ (\E i \in DOMAIN detailed.result.errors :
                   /\ detailed.result.errors[i].type = "INVALID_PATH"
                   /\ detailed.result.errors[i].field = "healthCheckPath")
                  <=> ~startsWith(detailed.config.healthCheckPath, <<"/">>)
           /\ ~startsWith(detailed.config.healthCheckPath, <<"/">>) => ~detailed.result.isValid
    /\ returned => startsWith(resolved.value.healthCheckPath, <<"/">>)

\* resolveConfiguration returned a configuration whose healthCheckPath is the empty
\* string, and validation of it reported no error
C23_EmptyPathReturned ==
    /\ returned
    /\ resolved.value.healthCheckPath = EmptyString
    /\ resolved.validation.isValid
    /\ resolved.validation.errors = <<>>

\* the generic rule in words: starts and ends with an alphanumeric character, every
\* character is alphanumeric or a hyphen; one character is enough
genericRule(s) ==
    /\ Len(s) >= 1
    /\ s[1] \in AlnumChars
    /\ s[Len(s)] \in AlnumChars
    /\ \A i \in DOMAIN s : s[i] \in AlnumChars \cup {"-"}

\* C24 as stated: validation reports an AWS naming violation for a non-empty registry,
\* service, task-family, load-balancer or target-group base identifier exactly when it
\* does not satisfy the generic rule; an identifier that satisfies it, of any length from
\* one character up, is never reported
C24_AsStated ==
    \A i \in DOMAIN awsNameFields :
        LET field == awsNameFields[i]
        IN /\ flat.op = "validateConfiguration" =>
                  (reports(flat.result.errors,
                           "Field contains invalid characters for AWS resources", field)
                       <=> (flat.config[field] # EmptyString
                            /\ ~genericRule(flat.config[field])))
           /\ detailed.op = "validateConfigurationDetailed" =>
                  ((\E j \in DOMAIN detailed.result.errors :
                        /\ detailed.result.errors[j].type = "AWS_NAMING_VIOLATION"
                        /\ detailed.result.errors[j].field = field)
                       <=> (detailed.config[field] # EmptyString
                            /\ ~genericRule(detailed.config[field])))

\* the one-character service name 'a' satisfies the generic rule and was reported by both
\* entry points, and resolveConfiguration failed on it
C24_OneCharacterReported ==
    /\ bothValidated
    /\ flat.config.serviceName = <<"a">>
    /\ genericRule(flat.config.serviceName)
    /\ reports(flat.result.errors,
               "Field contains invalid characters for AWS resources", "serviceName")
    /\ \E j \in DOMAIN detailed.result.errors :
           /\ detailed.result.errors[j].type = "AWS_NAMING_VIOLATION"
           /\ detailed.result.errors[j].field = "serviceName"
    /\ resolved.threw

\* the three warning-level findings of a configuration: <<text, field>>
warningFindings(config) ==
    (IF \E i, j \in DOMAIN NameKeys :
            i # j /\ config.resourceNames[NameKeys[i]] = config.resourceNames[NameKeys[j]]
     THEN {<<"Duplicate resource names detected", "resourceNames">>} ELSE {})
    \cup
    (IF config.buildCommands = <<>>
     THEN {<<"No build commands specified, build may fail", "buildCommands">>} ELSE {})
    \cup
    (IF \E i \in 1..(Len(config.dockerfilePath) - 1) :
            config.dockerfilePath[i] = "." /\ config.dockerfilePath[i + 1] = "."
     THEN {<<"Dockerfile path contains '..' which may cause security issues",
             "dockerfilePath">>} ELSE {})

\* a validation result holds the warning-level findings as warnings and none as an error,
\* and is valid when no error-level rule is violated
warnsOnly(validation, config) ==
    /\ {<<validation.warnings[i].text, validation.warnings[i].field>> :
            i \in DOMAIN validation.warnings} = warningFindings(config)
    /\ \A i \in DOMAIN validation.errors :
           validation.errors[i].field \notin {"resourceNames", "buildCommands", "dockerfilePath"}
    /\ violations(config) = {} => validation.isValid /\ validation.errors = <<>>

\* C25: the warning-level rules of validation never block: duplicate generated names, an
\* empty build-command list and a dockerfile path containing '..' each add a warning and
\* never an error, so a configuration whose only findings are of these kinds is valid and
\* is returned by resolveConfiguration
C25_WarningsNeverBlock ==
    /\ flat.op = "validateConfiguration" => warnsOnly(flat.result, flat.config)
    /\ resolvedAndValidated =>
           /\ warnsOnly(resolved.validation, resolved.assembled)
           /\ violations(resolved.assembled) = {} =>
                  /\ ~resolved.threw
                  /\ resolved.value = resolved.assembled
    /\ detailed.op = "validateConfigurationDetailed" =>
           /\ \A i \in DOMAIN detailed.result.errors :
                  detailed.result.errors[i].field
                      \notin {"resourceNames", "buildCommands", "dockerfilePath"}
           /\ detailed.result.errors = <<>> => detailed.result.isValid

\* a configuration with all three warning-level findings and no other was returned
C25_WitnessThreeWarnings ==
    /\ returned
    /\ Cardinality(warningFindings(resolved.value)) = 3
    /\ Len(resolved.validation.warnings) = 3
    /\ resolved.validation.errors = <<>>

(***************************************************************************)
(* Properties of ResourceNameGenerator: validation, frames, helpers         *)
(***************************************************************************)
\* a name starts, whatever the case of its letters, with 'aws', 'amazon', 'ecs' or 'ec2'
reservedStart(name) ==
    \/ Len(name) >= 3 /\ toLowerCase(SubSeq(name, 1, 3)) \in {<<"a","w","s">>, <<"e","c","s">>,
                                                              <<"e","c","2">>}
    \/ Len(name) >= 6 /\ toLowerCase(SubSeq(name, 1, 6)) = <<"a","m","a","z","o","n">>

\* the last generateResourceNames call built its nine names and validated them
namesValidated == generated.op = "generateResourceNames" /\ generated.validation # undefined

\* C26: whenever a generated name starts, case-insensitively, with 'aws', 'amazon', 'ecs'
\* or 'ec2', validation of the generated names (checkReservedPrefixes on) adds a warning
\* for that name and never an error; a reserved prefix alone never makes
\* validateResourceNames invalid nor generateResourceNames fail
C26_ReservedPrefixWarnsOnly ==
    (namesValidated /\ genConfig.checkReservedPrefixes) =>
        LET validation == generated.validation
            names == generated.resourceNames
        IN /\ \A i \in DOMAIN NameKeys :
                  reservedStart(names[NameKeys[i]])
                      <=> reports(validation.warnings, "starts with reserved prefix", NameKeys[i])
           /\ \A i \in DOMAIN validation.errors :
                  validation.errors[i].text \in {"Invalid", "Duplicate resource names detected"}
           /\ validation.isValid <=> validation.errors = <<>>
           /\ generated.threw <=> ~validation.isValid

\* the service name 'Ecs-api-beta' was returned, with a warning for it
C26_WitnessEcsServiceName ==
    /\ namesValidated
    /\ ~generated.threw
    /\ generated.value.serviceName = <<"E","c","s","-","a","p","i","-","b","e","t","a">>
    /\ reports(generated.validation.warnings, "starts with reserved prefix", "serviceName")
    /\ generated.validation.isValid

C28_AsStated ==
    (helper.op = "normalizeEcrName" /\ helper.applied >= 1 /\ helper.result # EmptyString) =>
        /\ ECR_PATTERN(helper.result)
        /\ isValidResourceName(helper.result, "ecrRepositoryName")

\* normalizeEcrName('/a') returned '/a', which does not match ECR_PATTERN
C28_LeadingSlashKept ==
    /\ helper.op = "normalizeEcrName" /\ helper.applied = 1
    /\ helper.name = <<"/", "a">>
    /\ helper.result = <<"/", "a">>
    /\ ~ECR_PATTERN(helper.result)

\* the existing names a context brings with it
contextNames(context) == IF has(context, "existingNames") THEN context.existingNames ELSE {}

\* C29 as stated: a failed generateResourceNames call leaves the generator unchanged: its
\* existing-names set has exactly the members it had before the call
C29_AsStated ==
    [][(calls' = calls + 1 /\ generated'.threw) => existingNames' = existingNames]_vars

\* C29: a failed generateResourceNames call (name too long, naming conflict, attempts
\* exhausted or validation of the generated set) adds none of the names it generated to
\* the generator's existing-names set: after the call the set holds the members it had
\* before and the existing names of the call's context, nothing else
C29_FailedCallKeepsContextNamesOnly ==
    [][(calls' = calls + 1 /\ generated'.threw) =>
           /\ existingNames' = existingNames \cup contextNames(generated'.context)
           /\ generated'.consulted = existingNames']_vars

\* the first call of a generator failed in the validation of its nine names; the names of
\* its context are in the existing-names set, the service name it generated is not
C29_WitnessFailedCallMergedContext ==
    /\ calls = 1
    /\ generated.op = "generateResourceNames" /\ generated.threw
    /\ generated.error.message = "Resource name validation failed"
    /\ contextNames(generated.context) # {}
    /\ existingNames = generated.consulted
    /\ contextNames(generated.context) \subseteq existingNames
    /\ generated.resourceNames.serviceName \notin existingNames

\* C30: the collision resolver and the single-name validator agree: every name
\* generateUniqueName returned for a resource class is one that
\* validateSingleResourceName(name, class) reports valid against the existing names of
\* the moment of return (within length, pattern-conformant, not among the existing names),
\* and once generateResourceNames has succeeded validateSingleResourceName reports each of
\* the nine returned names as an existing-name conflict
C30_ResolverAndValidatorAgree ==
    /\ (generated.op = "generateResourceNames" /\ generated.resourceNames # undefined) =>
           \A i \in DOMAIN UniqueNameKeys :
               LET name == generated.resourceNames[UniqueNameKeys[i]]
                   atReturn == validateSingleResourceName(name, validationKey(UniqueNameKeys[i]),
                                                          generated.consulted, genConfig)
               IN /\ atReturn.isValid
                  /\ atReturn.errors = <<>>
                  /\ Len(name) <= LENGTH_LIMITS(validationKey(UniqueNameKeys[i]))
                  /\ name \notin generated.consulted
    /\ (helper.op = "validateSingleResourceName" /\ ~generated.threw) =>
           /\ helper.name = generated.value[helper.key]
           /\ ~helper.result.isValid
           /\ helper.result.errors = <<"Name already exists and would cause a conflict">>

\* the service name 'svc-service-beta-1', returned after a collision with a name of the
\* context, was then reported as an existing-name conflict
C30_WitnessReturnedNameConflicts ==
    /\ helper.op = "validateSingleResourceName"
    /\ ~generated.threw
    /\ helper.key = "serviceName"
    /\ helper.name = svcServiceBeta \o <<"-", "1">>
    /\ svcServiceBeta \in generated.consulted
    /\ ~helper.result.isValid
    /\ helper.result.errors = <<"Name already exists and would cause a conflict">>
====
